---- MODULE Spec2Model ----
(***************************************************************************)
(* Verification model of the news-scraper intake pipeline:                 *)
(*   src/src/cache_manager.py   _normalize_url, CacheManager               *)
(*   src/src/scraper.py         check_entry_matches, scrape_and_notify     *)
(*   src/src/story_grouper.py   StoryGrouper                               *)
(*   src/src/ai_helpers.py      batch_ai_relevance, classify_urgency, ...  *)
(*   src/src/notifier.py        the retry loop of the send_* functions     *)
(*   src/scripts/run_scraper.py main                                       *)
(*                                                                         *)
(* Text (URLs, titles, summaries, community names) is a sequence of        *)
(* one-character strings, so that stripping, lower-casing, splitting and   *)
(* word-boundary search are computed the way the Python code computes      *)
(* them.  Each component has its own specification over its own variables  *)
(* (SpecUrl, SpecCache, SpecMatch, SpecGroup, SpecRelevance, SpecMain,     *)
(* SpecSend, and Spec for one call of scrape_and_notify); the variables of *)
(* the other components stay at their idle values.                         *)
(***************************************************************************)
EXTENDS Integers, Sequences, FiniteSets, TLC

VARIABLES
    \* --- _normalize_url applied to one URL (SpecUrl)
    url,        \* the raw URL handed to _normalize_url
    urlPc,      \* "input" | "normalized" | "variant"
    key1,       \* _normalize_url(url)
    key2,       \* _normalize_url(key1)
    variant,    \* a URL that differs from url only in query string / fragment
    variantKey, \* _normalize_url(variant)
    \* --- CacheManager (SpecCache, Spec)
    seen,       \* CacheManager.seen: the in-memory set of keys
    fileExists, \* whether seen_file exists
    fileLines,  \* the lines of seen_file (as a set: _load_cache builds a set)
    cacheOp,    \* the last CacheManager call: "init" | "has_seen" |
                \* "mark_seen" | "save_ok" | "save_failed"
    cacheArg,   \* the URL given to that call (<<>> when it takes none)
    cacheAns,   \* what has_seen returned (FALSE for the other calls)
    seenBefore, \* seen as it was when that call started
    \* --- check_entry_matches applied to one entry (SpecMatch)
    cfg,        \* the configuration scrape_and_notify was called with
    entry,      \* the feedparser entry
    matchPc,    \* "entry" | "checked"
    match,      \* what check_entry_matches returned: <<>> for None, else <<dict>>
    \* --- StoryGrouper.group_stories applied to one list (SpecGroup)
    groupArticles,  \* the articles argument
    groupVectors,   \* the embedding_vectors argument: <<>> for None, else <<list>>
    groupThreshold, \* similarity_threshold
    groupPc,        \* "input" | "grouped"
    groupResult,    \* the returned groups, as positions in groupArticles
    \* --- one call of scrape_and_notify (Spec)
    config,         \* the keyword arguments of the call, and whether the
                    \* oracle is configured (llm.is_available())
    feeds,          \* per feed URL, the entries fetch_feed yields if it succeeds
    pc,             \* "idle" | "feeds" | "relevance" | "prepare" | "deliver" |
                    \* "returned" | "raised"
    fetched,        \* per feed visited so far, whether fetch_feed gave a feed
    all_matches,    \* all_matches
    ai_relevance_candidates, \* ai_relevance_candidates
    relevanceAsked, \* the entries handed to batch_ai_relevance
    verifyAsked,    \* the items handed to batch_verify_community_relevance:
                    \* the entry, the community asked about, and the answer
    embedding_vectors, \* embedding_vectors: <<>> for None, else <<list>>
    runGroups,      \* the notifications to send, each a list of positions
                    \* in all_matches
    results,        \* what the send_* call returned, per notification sent
    posted_count,   \* posted_count
    oracle,         \* what the oracle did in this call, per kind of request:
                    \* "unasked", or the kind of reply it gave
    \* --- batch_ai_relevance applied to one reply of the oracle (SpecRelevance)
    relCall,        \* the call: the number of candidates, the communities,
                    \* llm.is_available(), and what llm.chat returns (<<>> for
                    \* None, else <<text>>)
    relPc,          \* "call" | "returned"
    relResult,      \* the returned list
    \* --- main of run_scraper.py from the call of scrape_and_notify on (SpecMain)
    mainPc,         \* "idle" | "running" | "returned" | "interrupted" |
                    \* "raised" | "exit"
    saves,          \* the number of cache.save() calls made
    marked,         \* the links scrape_and_notify handed to cache.mark_seen
    exitCode,       \* <<>> while the process runs, else <<code>>
    \* --- one call of send_slack_notification or send_grouped_notification
    \* (SpecSend)
    sendCall,       \* the function called
    sendPc,         \* "idle" | "posting" | "returned"
    attempt,        \* the loop variable of the retry loop
    posts,          \* what each requests.post / raise_for_status so far did
    sleeps,         \* the arguments of the sleep calls so far
    sendResult      \* <<>> while the call runs, else <<the value returned>>

urlVars == <<url, urlPc, key1, key2, variant, variantKey>>
cacheVars == <<seen, fileExists, fileLines, cacheOp, cacheArg, cacheAns, seenBefore>>

matchVars == <<cfg, entry, matchPc, match>>

groupVars == <<groupArticles, groupVectors, groupThreshold, groupPc, groupResult>>

runVars == <<config, feeds, pc, fetched, all_matches, ai_relevance_candidates,
             relevanceAsked, verifyAsked, embedding_vectors, runGroups, results,
             posted_count, oracle>>

relVars == <<relCall, relPc, relResult>>

mainVars == <<mainPc, saves, marked, exitCode>>

sendVars == <<sendCall, sendPc, attempt, posts, sleeps, sendResult>>

vars == <<urlVars, cacheVars, matchVars, groupVars, runVars, relVars, mainVars,
          sendVars>>

\* What the actions of one component leave alone.
exceptUrl == <<cacheVars, matchVars, groupVars, runVars, relVars, mainVars,
               sendVars>>
exceptCache == <<urlVars, matchVars, groupVars, runVars, relVars, mainVars,
                 sendVars>>
exceptMatch == <<urlVars, cacheVars, groupVars, runVars, relVars, mainVars,
                 sendVars>>
exceptGroup == <<urlVars, cacheVars, matchVars, runVars, relVars, mainVars,
                 sendVars>>
exceptRun == <<urlVars, fileExists, fileLines, cacheOp, cacheArg, cacheAns,
               seenBefore, matchVars, groupVars, relVars, mainVars, sendVars>>
exceptRel == <<urlVars, cacheVars, matchVars, groupVars, runVars, mainVars,
               sendVars>>
exceptMain == <<urlVars, matchVars, groupVars, runVars, relVars, sendVars>>
exceptSend == <<urlVars, cacheVars, matchVars, groupVars, runVars, relVars,
                mainVars>>

(***************************************************************************)
(* Sequence helpers (Python str methods and slices).                       *)
(***************************************************************************)
SetMin(S) == CHOOSE x \in S : \A y \in S : x <= y
SetMax(S) == CHOOSE x \in S : \A y \in S : x >= y

Range(q) == {q[i] : i \in 1..Len(q)}

\* All sequences over S of length 0..n.
SeqsUpTo(S, n) == UNION {[1..k -> S] : k \in 0..n}

\* s[from:] with a 1-based first index.
Drop(s, from) == SubSeq(s, from, Len(s))

\* s[:n]
Take(s, n) == SubSeq(s, 1, IF n < Len(s) THEN n ELSE Len(s))

\* str.strip(): whitespace removed at both ends (" " is the whitespace of
\* the model's alphabets).
strip(s) ==
    LET keep == {i \in 1..Len(s) : s[i] # " "}
    IN  IF keep = {} THEN <<>> ELSE SubSeq(s, SetMin(keep), SetMax(keep))

\* str.lstrip()
lstrip(s) ==
    LET keep == {i \in 1..Len(s) : s[i] # " "}
    IN  IF keep = {} THEN <<>> ELSE SubSeq(s, SetMin(keep), Len(s))

\* 1-based index of the first element of s at position >= from that is in
\* chars, 0 when there is none (str.find, shifted by one).
FindFirst(s, chars, from) ==
    LET hits == {i \in from..Len(s) : s[i] \in chars}
    IN  IF hits = {} THEN 0 ELSE SetMin(hits)

(***************************************************************************)
(* urllib.parse as _normalize_url uses it, on the alphabet UrlChars.       *)
(* Letters "w" and "s" are the scheme characters of the alphabet; "ws" and *)
(* "wss" are the members of urllib's uses_netloc list that can be spelled  *)
(* with them.                                                              *)
(***************************************************************************)
UrlChars == {"w", "s", ":", "/", "?", "#", " ", "["}
SchemeChars == {"w", "s"}
UsesNetloc == {<<"w", "s">>, <<"w", "s", "s">>}

\* urlsplit, in the order it cuts the URL up: the scheme before the first
\* ":", the netloc after "//", then fragment and query.  The result is
\* [raises, scheme, netloc, path]; query and fragment are cut off and not
\* returned, since _normalize_url discards them.  raises: the netloc has a
\* "[" without "]" (ValueError, Invalid IPv6 URL).
Parsed(scheme, netloc, path) ==
    [raises |-> \E i \in 1..Len(netloc) : netloc[i] = "[",
     scheme |-> scheme,
     netloc |-> netloc,
     path   |-> path]

\* s[:k] for the 1-based position k of a delimiter, s when k is 0.
CutBefore(s, k) == IF k = 0 THEN s ELSE SubSeq(s, 1, k - 1)

CutAt(s, ch) == CutBefore(s, FindFirst(s, {ch}, 1))

SplitPath(scheme, netloc, rest) ==
    Parsed(scheme, netloc, CutAt(CutAt(rest, "#"), "?"))

\* delim: the position of the first of "/", "?", "#" behind the "//".
SplitAtDelim(scheme, s, delim) ==
    IF delim = 0 THEN SplitPath(scheme, Drop(s, 3), <<>>)
    ELSE SplitPath(scheme, SubSeq(s, 3, delim - 1), Drop(s, delim))

SplitNetloc(scheme, s) ==
    IF Len(s) >= 2 /\ s[1] = "/" /\ s[2] = "/"
    THEN SplitAtDelim(scheme, s, FindFirst(s, {"/", "?", "#"}, 3))
    ELSE SplitPath(scheme, <<>>, s)

\* colon: the position of the first ":".
SplitAtColon(s, colon) ==
    IF colon > 1 /\ \A i \in 1..(colon - 1) : s[i] \in SchemeChars
    THEN SplitNetloc(SubSeq(s, 1, colon - 1), Drop(s, colon + 1))
    ELSE SplitNetloc(<<>>, s)

SplitScheme(s) == SplitAtColon(s, FindFirst(s, {":"}, 1))

urlparse(u) == SplitScheme(lstrip(u))

\* urlunparse((scheme, netloc, path, "", "", ""))
urlunparse(scheme, netloc, path) ==
    LET dslash == Len(path) >= 2 /\ path[1] = "/" /\ path[2] = "/"
        rooted == IF path # <<>> /\ path[1] # "/" THEN <<"/">> \o path ELSE path
        u1     == IF netloc # <<>> \/ (scheme \in UsesNetloc /\ ~dslash)
                  THEN <<"/", "/">> \o netloc \o rooted
                  ELSE path
    IN  IF scheme # <<>> THEN scheme \o <<":">> \o u1 ELSE u1

\* The cache key of a URL.
\* Lines 33-37: the key of the stripped URL s, parsed into p.
KeyOfParsed(s, p) ==
    IF p.raises THEN s ELSE urlunparse(p.scheme, p.netloc, p.path)

KeyOfStripped(s) == IF s = <<>> THEN <<>> ELSE KeyOfParsed(s, urlparse(s))

_normalize_url(u) == KeyOfStripped(strip(u))

(***************************************************************************)
(* SpecUrl: _normalize_url as a pure function of a bounded URL.            *)
(***************************************************************************)
MaxUrlLen == 4

\* The part of a URL before its query string and fragment.
BeforeQuery(u) ==
    LET cut == FindFirst(u, {"?", "#"}, 1)
    IN  IF cut = 0 THEN u ELSE SubSeq(u, 1, cut - 1)

QuerySuffixes ==
    {<<>>, <<"?">>, <<"?", "w">>, <<"#">>, <<"#", "s">>, <<"?", "s", "#", "w">>}

UrlIdle ==
    /\ url = <<>>
    /\ urlPc = "idle"
    /\ key1 = <<>>
    /\ key2 = <<>>
    /\ variant = <<>>
    /\ variantKey = <<>>

MatchIdle ==
    /\ cfg = <<>>
    /\ entry = <<>>
    /\ matchPc = "idle"
    /\ match = <<>>

GroupIdle ==
    /\ groupArticles = <<>>
    /\ groupVectors = <<>>
    /\ groupThreshold = <<0, 1>>
    /\ groupPc = "idle"
    /\ groupResult = <<>>

RelIdle ==
    /\ relCall = <<>>
    /\ relPc = "idle"
    /\ relResult = <<>>

MainIdle ==
    /\ mainPc = "idle"
    /\ saves = 0
    /\ marked = {}
    /\ exitCode = <<>>

SendIdle ==
    /\ sendCall = <<>>
    /\ sendPc = "idle"
    /\ attempt = 0
    /\ posts = <<>>
    /\ sleeps = <<>>
    /\ sendResult = <<>>

RunIdle ==
    /\ config = <<>>
    /\ feeds = <<>>
    /\ pc = "idle"
    /\ fetched = <<>>
    /\ all_matches = <<>>
    /\ ai_relevance_candidates = <<>>
    /\ relevanceAsked = <<>>
    /\ verifyAsked = <<>>
    /\ embedding_vectors = <<>>
    /\ runGroups = <<>>
    /\ results = <<>>
    /\ posted_count = 0
    /\ oracle = <<>>

CacheIdle ==
    /\ seen = {}
    /\ fileExists = FALSE
    /\ fileLines = {}
    /\ cacheOp = "idle"
    /\ cacheArg = <<>>
    /\ cacheAns = FALSE
    /\ seenBefore = {}

InitUrl ==
    /\ url \in SeqsUpTo(UrlChars, MaxUrlLen)
    /\ urlPc = "input"
    /\ key1 = <<>>
    /\ key2 = <<>>
    /\ variant = <<>>
    /\ variantKey = <<>>
    /\ CacheIdle
    /\ MatchIdle
    /\ GroupIdle
    /\ RunIdle
    /\ RelIdle
    /\ MainIdle
    /\ SendIdle

\* The key of url, and the key of that key.
Normalize ==
    /\ urlPc = "input"
    /\ key1' = _normalize_url(url)
    /\ key2' = _normalize_url(_normalize_url(url))
    /\ urlPc' = "normalized"
    /\ UNCHANGED <<url, variant, variantKey, exceptUrl>>

\* The key of a URL with the same scheme, host and path as url and another
\* query string / fragment.
NormalizeVariant ==
    /\ urlPc = "normalized"
    /\ \E suffix \in QuerySuffixes :
          /\ variant' = BeforeQuery(url) \o suffix
          /\ variantKey' = _normalize_url(BeforeQuery(url) \o suffix)
    /\ urlPc' = "variant"
    /\ UNCHANGED <<url, key1, key2, exceptUrl>>

(***************************************************************************)
(* CacheManager.  MAX_CACHE_SIZE is 10000 in the source; the model keeps   *)
(* the trimming rule and scales the number down.                           *)
(***************************************************************************)
MAX_CACHE_SIZE == 2

\* URLs handed to has_seen / mark_seen.  CacheUrls[1..3] differ pairwise
\* only in query string / fragment, and so do CacheUrls[4..5]; urlparse
\* raises on the latter two (an unclosed "[" in the host).
CacheUrls ==
    << <<"w","s",":","/","/","s","/","w">>,
       <<"w","s",":","/","/","s","/","w","?","s">>,
       <<"w","s",":","/","/","s","/","w","#","w">>,
       <<"/","/","[","?","w">>,
       <<"/","/","[","?","s">>,
       <<"s">>,
       <<>>,
       <<" ">> >>

CacheUrlSet == {CacheUrls[i] : i \in 1..Len(CacheUrls)}

\* Contents seen_file can have when the process starts: empty, one line
\* written before keys were normalized (padded with blanks) beside a blank
\* line and a line that is only a fragment, or more lines than the cap.
StoredFiles ==
    { {},
      {<<" ","w","s",":","/","/","s","/","w","?","s">>, <<" ">>, <<"#","w">>},
      {_normalize_url(CacheUrls[i]) : i \in {1, 4, 5, 6}} }

\* CacheManager._load_cache: the set the constructor puts in self.seen.
\* readFails: open() or the decoding of a line raises.
_load_cache(exists, lines, readFails) ==
    IF ~exists THEN {}
    ELSE IF readFails THEN {}
    ELSE {_normalize_url(strip(line)) : line \in {l \in lines : strip(l) # <<>>}}

\* CacheManager.has_seen
has_seen(seenSet, u) == _normalize_url(u) \in seenSet

\* CacheManager.mark_seen: self.seen after the call.
AddKey(seenSet, key) == IF key # <<>> THEN seenSet \cup {key} ELSE seenSet

mark_seen(seenSet, u) == AddKey(seenSet, _normalize_url(u))

\* save without its size check.
Trimmed_NoCheck(seenSet) == {seenSet}

\* The sets self.seen can be after the trimming step of save:
\* list(self.seen)[-MAX_CACHE_SIZE:] keeps MAX_CACHE_SIZE keys, and which
\* ones depends on the iteration order of the set.
Trimmed(seenSet) ==
    IF Cardinality(seenSet) > MAX_CACHE_SIZE
    THEN {kept \in SUBSET seenSet : Cardinality(kept) = MAX_CACHE_SIZE}
    ELSE {seenSet}

\* CacheManager.__init__ on a cache directory in any of its start states.
InitCache ==
    /\ fileExists \in BOOLEAN
    /\ fileLines \in StoredFiles
    /\ ~fileExists => fileLines = {}
    /\ \E readFails \in BOOLEAN : seen = _load_cache(fileExists, fileLines, readFails)
    /\ cacheOp = "init"
    /\ cacheArg = <<>>
    /\ cacheAns = FALSE
    /\ seenBefore = {}
    /\ UrlIdle
    /\ MatchIdle
    /\ GroupIdle
    /\ RunIdle
    /\ RelIdle
    /\ MainIdle
    /\ SendIdle

\* A later process constructs its CacheManager on the same file.
Construct ==
    /\ \E readFails \in BOOLEAN :
          seen' = _load_cache(fileExists, fileLines, readFails)
    /\ cacheOp' = "init"
    /\ cacheArg' = <<>>
    /\ cacheAns' = FALSE
    /\ seenBefore' = seen
    /\ UNCHANGED <<fileExists, fileLines, exceptCache>>

\* The construction when self.seen_file.exists() (line 64, outside the try)
\* raises: os.stat fails with an error that Path.exists does not swallow,
\* such as EACCES for a cache directory without search permission.  The
\* exception leaves _load_cache and __init__, and no CacheManager exists.
ConstructRaised ==
    /\ seen' = {}
    /\ cacheOp' = "init_raised"
    /\ cacheArg' = <<>>
    /\ cacheAns' = FALSE
    /\ seenBefore' = seen
    /\ UNCHANGED <<fileExists, fileLines, exceptCache>>

\* The process holds a CacheManager.
Constructed == cacheOp # "init_raised"

HasSeen ==
    \E u \in CacheUrlSet :
        /\ Constructed
        /\ cacheOp' = "has_seen"
        /\ cacheArg' = u
        /\ cacheAns' = has_seen(seen, u)
        /\ seenBefore' = seen
        /\ UNCHANGED <<seen, fileExists, fileLines, exceptCache>>

MarkSeen ==
    \E u \in CacheUrlSet :
        /\ Constructed
        /\ seen' = mark_seen(seen, u)
        /\ cacheOp' = "mark_seen"
        /\ cacheArg' = u
        /\ cacheAns' = FALSE
        /\ seenBefore' = seen
        /\ UNCHANGED <<fileExists, fileLines, exceptCache>>

\* CacheManager.save when the file is opened and every line is written.
SaveWritten ==
    \E kept \in Trimmed(seen) :
        /\ Constructed
        /\ seen' = kept
        /\ fileExists' = TRUE
        /\ fileLines' = kept
        /\ cacheOp' = "save_ok"
        /\ cacheArg' = <<>>
        /\ cacheAns' = FALSE
        /\ seenBefore' = seen
        /\ UNCHANGED exceptCache

\* CacheManager.save when open() raises (the file is left as it was) or a
\* write raises (the file holds the lines written so far); the exception
\* is caught and logged.
SaveFailed ==
    \E kept \in Trimmed(seen) :
        /\ Constructed
        /\ seen' = kept
        /\ \/ UNCHANGED <<fileExists, fileLines>>
           \/ /\ fileExists' = TRUE
              /\ fileLines' \in (SUBSET kept) \ {kept}
        /\ cacheOp' = "save_failed"
        /\ cacheArg' = <<>>
        /\ cacheAns' = FALSE
        /\ seenBefore' = seen
        /\ UNCHANGED exceptCache

NextUrl == Normalize \/ NormalizeVariant

SpecUrl == InitUrl /\ [][NextUrl]_vars

NextCache == Construct \/ ConstructRaised \/ HasSeen \/ MarkSeen \/ SaveWritten \/ SaveFailed

SpecCache == InitCache /\ [][NextCache]_vars

(***************************************************************************)
(* check_entry_matches (scraper.py).  Titles, summaries, authors and       *)
(* community names are texts over TextChars: "V" is an upper-case letter   *)
(* whose lower case is "v", the other letters are lower-case, and " " is   *)
(* the only character that is not a word character.  The texts carry no    *)
(* markup, so strip_html (BeautifulSoup get_text with strip=True) returns  *)
(* their text with the blanks at both ends removed.                        *)
(***************************************************************************)
TextChars == {"V", "v", "c", "e", "a", " "}

\* The upper-case letters and, at the same positions, their lower case.
ascii_uppercase == <<"A", "B", "C", "D", "E", "F", "G", "H", "I", "J", "K", "L", "M",
                   "N", "O", "P", "Q", "R", "S", "T", "U", "V", "W", "X", "Y", "Z">>
ascii_lowercase == <<"a", "b", "c", "d", "e", "f", "g", "h", "i", "j", "k", "l", "m",
                   "n", "o", "p", "q", "r", "s", "t", "u", "v", "w", "x", "y", "z">>

\* The lower case of each upper-case letter.
to_lower ==
    [c \in {ascii_uppercase[k] : k \in 1..Len(ascii_uppercase)} |->
        ascii_lowercase[CHOOSE k \in 1..Len(ascii_uppercase) : ascii_uppercase[k] = c]]

\* str.lower()
lower(s) ==
    [i \in 1..Len(s) |-> IF s[i] \in DOMAIN to_lower THEN to_lower[s[i]] ELSE s[i]]

strip_html(s) == strip(s)

\* p in s (substring test)
Contains(s, p) ==
    \E i \in 1..(Len(s) - Len(p) + 1) : SubSeq(s, i, i + Len(p) - 1) = p

\* Whether position k of text (1..Len(text)) holds a word character (\w).
IsWordAt(text, k) == k \in 1..Len(text) /\ text[k] # " "

\* re.search(r'\b' + re.escape(pat) + r'\b', text): pat occurs in text with
\* a word boundary on each side.
WordSearch(pat, text) ==
    \E i \in 1..(Len(text) - Len(pat) + 1) :
        /\ SubSeq(text, i, i + Len(pat) - 1) = pat
        /\ IsWordAt(text, i - 1) # IsWordAt(text, i)
        /\ IsWordAt(text, i + Len(pat) - 1) # IsWordAt(text, i + Len(pat))

\* Optional values: <<>> is None, <<x>> is x.
None == <<>>
Some(x) == <<x>>

\* datetime.now() and the publication times an entry can carry.  With
\* max_age_hours = MaxAgeHours, an entry published at time 1 is too old and
\* one published at time 2 is not.
Now == 3
MaxAgeHours == 1
PubTimes == {1, 2}

\* The communities of the configuration, in their two orders, and the
\* exclusion phrases of "V" ("Vista" with exclusion "Chula Vista").
Vista == <<"V">>
Encinitas == <<"e">>
CommunityLists == {<<Vista, Encinitas>>, <<Encinitas, Vista>>}
community_exclusions == [c \in {Vista} |-> << <<"c", " ", "V">> >>]

\* Feed URLs, and the priority_sources patterns: the feed of host "w" is a
\* priority source.
FeedUrls == << <<"w","s",":","/","/","s","/">>, <<"w","s",":","/","/","W","/">> >>
priority_sources == << <<"/", "/", "w">> >>

\* str.lower() on a feed URL ("W" is its upper-case letter).
lower_url(s) == [i \in 1..Len(s) |-> IF s[i] = "W" THEN "w" ELSE s[i]]

\* is_priority_source(feed_url, priority_sources)
is_priority_source(feed_url, sources) ==
    \E i \in 1..Len(sources) : Contains(lower_url(feed_url), lower_url(sources[i]))

\* Syndication phrases ("AP").
SyndicationLists == {<<>>, << <<"a">> >>}

\* The first characters of the summary that is_syndicated_from looks at.
BYLINE_ZONE == 200

\* is_syndicated_from looking at the author field only.
is_syndicated_from_AuthorOnly(e, exclude_list) ==
    \E i \in 1..Len(exclude_list) :
        /\ strip(exclude_list[i]) # <<>>
        /\ Contains(lower(strip(e.author)), lower(strip(exclude_list[i])))

\* is_syndicated_from(entry, exclude_list)
is_syndicated_from(e, exclude_list) ==
    LET author      == lower(strip(e.author))
        title       == strip(e.title)
        summary     == strip(strip_html(strip(e.summary)))
        byline_zone == lower(Take(summary, BYLINE_ZONE) \o <<" ">> \o title)
    IN  \E i \in 1..Len(exclude_list) :
            /\ strip(exclude_list[i]) # <<>>
            /\ \/ Contains(author, lower(strip(exclude_list[i])))
               \/ Contains(byline_zone, lower(strip(exclude_list[i])))

\* The recency filter: max_age_hours is set, the entry has a publication
\* time and its age exceeds max_age_hours.
TooOld(e, max_age_hours) ==
    /\ max_age_hours # None
    /\ e.pub # None
    /\ Now - e.pub[1] > max_age_hours[1]

\* (title + " " + summary_plain).lower()
CombinedText(e) ==
    lower(strip(e.title) \o <<" ">> \o strip(strip_html(strip(e.summary))))

\* The exclusion test with a plain substring test of the phrase's case as
\* configured (no lower-casing).
Excluded_AsConfigured(community, combined) ==
    /\ community \in DOMAIN community_exclusions
    /\ \E k \in 1..Len(community_exclusions[community]) :
          WordSearch(community_exclusions[community][k], combined)

\* Lines 301-308: an exclusion phrase of the community occurs in the text.
Excluded(community, combined) ==
    /\ community \in DOMAIN community_exclusions
    /\ \E k \in 1..Len(community_exclusions[community]) :
          WordSearch(lower(community_exclusions[community][k]), combined)

\* The loop stopping at the first community that matches.
RECURSIVE MatchLoop_FirstOnly(_, _, _, _, _, _)
MatchLoop_FirstOnly(i, communities, combined, title_lower, found, loc) ==
    IF i > Len(communities) THEN [communities |-> found, match_location |-> loc]
    ELSE IF WordSearch(lower(communities[i]), combined)
            /\ ~Excluded(communities[i], combined)
         THEN [communities    |-> <<communities[i]>>,
               match_location |-> IF WordSearch(lower(communities[i]), title_lower)
                                  THEN "title" ELSE "summary"]
         ELSE MatchLoop_FirstOnly(i + 1, communities, combined, title_lower, found, loc)

\* The loop of lines 296-314 from community i on; found and loc are
\* matching_communities and match_location ("" for None) so far.
RECURSIVE MatchLoop(_, _, _, _, _, _)
MatchLoop(i, communities, combined, title_lower, found, loc) ==
    IF i > Len(communities) THEN [communities |-> found, match_location |-> loc]
    ELSE LET community == communities[i]
             pattern   == lower(community)
         IN  IF WordSearch(pattern, combined) /\ ~Excluded(community, combined)
             THEN MatchLoop(i + 1, communities, combined, title_lower,
                            Append(found, community),
                            IF loc = "" /\ WordSearch(pattern, title_lower)
                            THEN "title"
                            ELSE IF loc = "" THEN "summary" ELSE loc)
             ELSE MatchLoop(i + 1, communities, combined, title_lower, found, loc)

\* excerpt = summary_plain if summary_plain else title
Excerpt(title, summary_plain) == IF summary_plain # <<>> THEN summary_plain ELSE title

\* _build_match_from_entry, and the dict check_entry_matches returns (lines
\* 327-337), which has the same fields; without the fields that only
\* format the notification (pub_date, source).
_build_match_from_entry(e, feed_url, matching_communities, match_location) ==
    [communities    |-> matching_communities,
     title          |-> strip(e.title),
     pub_datetime   |-> e.pub,
     link           |-> e.link,
     excerpt        |-> Excerpt(strip(e.title), strip(strip_html(strip(e.summary)))),
     match_location |-> match_location,
     is_priority    |-> is_priority_source(feed_url, priority_sources)]

\* Lines 316-337: None when no community matched, else the match dict;
\* r is what the loop over the communities left.
MatchDict(e, feed_url, r) ==
    IF r.communities = <<>> THEN None
    ELSE Some(_build_match_from_entry(
                  e, feed_url, r.communities,
                  IF r.match_location = "" THEN "summary" ELSE r.match_location))

\* check_entry_matches(entry, communities, cache, ...): None or the match
\* dict (without the fields that only format the notification: pub_date,
\* source).
check_entry_matches(e, c, seenSet, feed_url) ==
    IF e.link = <<>> THEN None
    ELSE IF has_seen(seenSet, e.link) THEN None
    ELSE IF TooOld(e, c.max_age_hours) THEN None
    ELSE IF c.exclude_syndicated_from # <<>>
            /\ is_syndicated_from(e, c.exclude_syndicated_from) THEN None
    ELSE MatchDict(e, feed_url,
                   MatchLoop(1, c.communities, CombinedText(e), lower(strip(e.title)),
                             <<>>, ""))

(***************************************************************************)
(* SpecMatch: check_entry_matches as a function of one entry, against a    *)
(* store that holds the key of CacheUrls[1].                               *)
(***************************************************************************)
MaxTitleLen == 2

SummaryTexts ==
    SeqsUpTo(TextChars, 1) \cup {<<"c", " ", "V">>, <<"v", " ", "e">>}

\* no link, a link whose key is in the store, a link whose key is not
EntryLinks == {<<>>, CacheUrls[2], CacheUrls[6]}

MatchConfigs ==
    [communities             : CommunityLists,
     max_age_hours           : {None, Some(MaxAgeHours)},
     exclude_syndicated_from : SyndicationLists]

MatchEntries ==
    [link    : EntryLinks,
     title   : SeqsUpTo(TextChars, MaxTitleLen),
     summary : SummaryTexts,
     author  : {<<>>, <<"a">>},
     pub     : {None} \cup {Some(t) : t \in PubTimes}]

InitMatch ==
    /\ cfg \in MatchConfigs
    /\ entry \in MatchEntries
    /\ matchPc = "entry"
    /\ match = None
    /\ seen = {_normalize_url(CacheUrls[1])}
    /\ fileExists = FALSE
    /\ fileLines = {}
    /\ cacheOp = "idle"
    /\ cacheArg = <<>>
    /\ cacheAns = FALSE
    /\ seenBefore = {}
    /\ UrlIdle
    /\ GroupIdle
    /\ RunIdle
    /\ RelIdle
    /\ MainIdle
    /\ SendIdle

CheckEntry ==
    /\ matchPc = "entry"
    /\ \E f \in 1..Len(FeedUrls) :
          match' = check_entry_matches(entry, cfg, seen, FeedUrls[f])
    /\ matchPc' = "checked"
    /\ UNCHANGED <<cfg, entry, exceptMatch>>

NextMatch == CheckEntry

SpecMatch == InitMatch /\ [][NextMatch]_vars

(***************************************************************************)
(* StoryGrouper (story_grouper.py).  A similarity is a rational number     *)
(* <<numerator, denominator>> with a positive denominator.  group_stories  *)
(* returns groups of positions in its input list: the dicts of the list    *)
(* are distinct objects, and a position stands for the object.             *)
(***************************************************************************)
RatLess(a, b) == a[1] * b[2] < b[1] * a[2]
RatMax(a, b) == IF RatLess(a, b) THEN b ELSE a

\* The end of the maximal run of word characters that starts at i.
WordEnd(text, i) ==
    CHOOSE j \in i..Len(text) :
        /\ \A k \in i..j : IsWordAt(text, k)
        /\ ~IsWordAt(text, j + 1)

\* set(re.findall(r'\w+', text)): the maximal runs of word characters.
Words(text) ==
    {SubSeq(text, i, WordEnd(text, i)) :
        i \in {k \in 1..Len(text) : IsWordAt(text, k) /\ ~IsWordAt(text, k - 1)}}

\* stop_words (line 49); a word of the list is one text element.
stop_words ==
    {<<w>> : w \in {"the", "a", "an", "and", "or", "but", "in", "on", "at",
                    "to", "for", "of", "with", "by", "from", "as", "is", "was",
                    "are", "were", "been", "be", "have", "has", "had", "do",
                    "does", "did", "will", "would", "could", "should", "may",
                    "might", "must", "can"}}

\* calculate_similarity without the lower-casing of the titles.
calculate_similarity_CaseSensitive(title1, title2) ==
    LET words1 == Words(title1) \ stop_words
        words2 == Words(title2) \ stop_words
    IN  IF words1 = {} /\ words2 = {} THEN <<1, 1>>
        ELSE IF words1 = {} \/ words2 = {} THEN <<0, 1>>
        ELSE <<Cardinality(words1 \cap words2), Cardinality(words1 \cup words2)>>

\* calculate_similarity as the share of the first title's words that the
\* second title has.
calculate_similarity_Containment(title1, title2) ==
    LET words1 == Words(lower(title1)) \ stop_words
        words2 == Words(lower(title2)) \ stop_words
    IN  IF words1 = {} /\ words2 = {} THEN <<1, 1>>
        ELSE IF words1 = {} \/ words2 = {} THEN <<0, 1>>
        ELSE <<Cardinality(words1 \cap words2), Cardinality(words1)>>

\* calculate_similarity as the overlap coefficient: the shared words over
\* the smaller of the two word sets.
calculate_similarity_Overlap(title1, title2) ==
    LET words1 == Words(lower(title1)) \ stop_words
        words2 == Words(lower(title2)) \ stop_words
    IN  IF words1 = {} /\ words2 = {} THEN <<1, 1>>
        ELSE IF words1 = {} \/ words2 = {} THEN <<0, 1>>
        ELSE <<Cardinality(words1 \cap words2),
               IF Cardinality(words1) < Cardinality(words2)
               THEN Cardinality(words1) ELSE Cardinality(words2)>>

\* StoryGrouper.calculate_similarity
calculate_similarity(title1, title2) ==
    LET words1 == Words(lower(title1)) \ stop_words
        words2 == Words(lower(title2)) \ stop_words
    IN  IF words1 = {} /\ words2 = {} THEN <<1, 1>>
        ELSE IF words1 = {} \/ words2 = {} THEN <<0, 1>>
        ELSE <<Cardinality(words1 \cap words2), Cardinality(words1 \cup words2)>>

RECURSIVE Dot(_, _)
Dot(a, b) == IF a = <<>> THEN 0 ELSE Head(a) * Head(b) + Dot(Tail(a), Tail(b))

\* sum(x * x for x in a) ** 0.5, for the vectors of the model (their norms
\* are whole numbers).
Norm(a) == CHOOSE r \in 0..Dot(a, a) : r * r = Dot(a, a)

\* _cosine_similarity
_cosine_similarity(a, b) ==
    IF a = <<>> \/ b = <<>> \/ Len(a) # Len(b) THEN <<0, 1>>
    ELSE IF Norm(a) = 0 \/ Norm(b) = 0 THEN <<0, 1>>
    ELSE <<Dot(a, b), Norm(a) * Norm(b)>>

\* StoryGrouper._similarity(article, group_article) without embeddings.
TitleSimilarity(article, group_article) ==
    IF article.title # <<>> /\ group_article.title # <<>>
    THEN calculate_similarity(article.title, group_article.title)
    ELSE <<0, 1>>

\* StoryGrouper._similarity of the articles at positions i and j; vectors is
\* None when the call passes no embeddings.
_similarity(articles, vectors, i, j) ==
    IF vectors # None /\ vectors[1][i] # <<>> /\ vectors[1][j] # <<>>
    THEN _cosine_similarity(vectors[1][i], vectors[1][j])
    ELSE TitleSimilarity(articles[i], articles[j])

\* Lines 129-141: the largest similarity of article i to a member of
\* group, from member m on (max_similarity so far: acc).
RECURSIVE MaxSimilarity(_, _, _, _, _, _)
MaxSimilarity(articles, vectors, i, group, m, acc) ==
    IF m > Len(group) THEN acc
    ELSE MaxSimilarity(articles, vectors, i, group, m + 1,
                       RatMax(acc, _similarity(articles, vectors, i, group[m])))

\* The scan of the groups with ties going to the later group.
RECURSIVE BestGroup_LatestTie(_, _, _, _, _, _)
BestGroup_LatestTie(articles, vectors, i, groups, idx, best) ==
    IF idx > Len(groups) THEN best
    ELSE LET max_similarity ==
                 MaxSimilarity(articles, vectors, i, groups[idx], 1, <<0, 1>>)
         IN  BestGroup_LatestTie(articles, vectors, i, groups, idx + 1,
                       IF RatLess(<<0, 1>>, max_similarity) /\ ~RatLess(max_similarity, best[2])
                       THEN <<idx, max_similarity>> ELSE best)

\* Lines 125-145: the scan of the groups from group idx on; best is
\* <<best_group_idx, best_similarity>>, best_group_idx 0 for None.
RECURSIVE BestGroup(_, _, _, _, _, _)
BestGroup(articles, vectors, i, groups, idx, best) ==
    IF idx > Len(groups) THEN best
    ELSE LET max_similarity ==
                 MaxSimilarity(articles, vectors, i, groups[idx], 1, <<0, 1>>)
         IN  BestGroup(articles, vectors, i, groups, idx + 1,
                       IF RatLess(best[2], max_similarity)
                       THEN <<idx, max_similarity>> ELSE best)

\* The loop with the untitled article skipped instead of put in a group of
\* its own.
RECURSIVE GroupLoop_SkipUntitled(_, _, _, _, _, _)
GroupLoop_SkipUntitled(articles, vectors, use_embeddings, threshold, i, groups) ==
    IF i > Len(articles) THEN groups
    ELSE IF articles[i].title = <<>> /\ ~use_embeddings
    THEN GroupLoop_SkipUntitled(articles, vectors, use_embeddings, threshold, i + 1,
                                groups)
    ELSE LET passed == IF use_embeddings /\ vectors[1] # <<>> THEN vectors ELSE None
             best   == BestGroup(articles, passed, i, groups, 1, <<0, <<0, 1>>>>)
         IN  IF best[1] # 0 /\ ~RatLess(best[2], threshold)
             THEN GroupLoop_SkipUntitled(articles, vectors, use_embeddings, threshold,
                                         i + 1, [groups EXCEPT ![best[1]] = Append(@, i)])
             ELSE GroupLoop_SkipUntitled(articles, vectors, use_embeddings, threshold,
                                         i + 1, Append(groups, <<i>>))

\* The loop joining the best group whatever the threshold.
RECURSIVE GroupLoop_JoinBest(_, _, _, _, _, _)
GroupLoop_JoinBest(articles, vectors, use_embeddings, threshold, i, groups) ==
    IF i > Len(articles) THEN groups
    ELSE IF articles[i].title = <<>> /\ ~use_embeddings
    THEN GroupLoop_JoinBest(articles, vectors, use_embeddings, threshold, i + 1,
                            Append(groups, <<i>>))
    ELSE LET passed == IF use_embeddings /\ vectors[1] # <<>> THEN vectors ELSE None
             best   == BestGroup(articles, passed, i, groups, 1, <<0, <<0, 1>>>>)
         IN  IF best[1] # 0
             THEN GroupLoop_JoinBest(articles, vectors, use_embeddings, threshold, i + 1,
                                     [groups EXCEPT ![best[1]] = Append(@, i)])
             ELSE GroupLoop_JoinBest(articles, vectors, use_embeddings, threshold, i + 1,
                                     Append(groups, <<i>>))

\* Lines 119-152: the loop over the articles from position i on.
\* use_embeddings as in lines 112-115; passed: the vectors handed to
\* _similarity (None unless use_embeddings and the list is not empty).
RECURSIVE GroupLoop(_, _, _, _, _, _)
GroupLoop(articles, vectors, use_embeddings, threshold, i, groups) ==
    IF i > Len(articles) THEN groups
    ELSE IF articles[i].title = <<>> /\ ~use_embeddings
    THEN GroupLoop(articles, vectors, use_embeddings, threshold, i + 1,
                   Append(groups, <<i>>))
    ELSE LET passed == IF use_embeddings /\ vectors[1] # <<>> THEN vectors ELSE None
             best   == BestGroup(articles, passed, i, groups, 1, <<0, <<0, 1>>>>)
         IN  IF best[1] # 0 /\ ~RatLess(best[2], threshold)
             THEN GroupLoop(articles, vectors, use_embeddings, threshold, i + 1,
                            [groups EXCEPT ![best[1]] = Append(@, i)])
             ELSE GroupLoop(articles, vectors, use_embeddings, threshold, i + 1,
                            Append(groups, <<i>>))

\* sort_key with the timestamp ascending: the oldest article first.
sort_key_OldestFirst(a) ==
    << IF a.is_priority THEN 0 ELSE 1,
       IF a.pub_datetime = None THEN 1 ELSE 0,
       IF a.pub_datetime # None THEN a.pub_datetime[1] ELSE 0 >>

\* sort_key (lines 156-163): priority first, dated first, recent first.
sort_key(a) ==
    << IF a.is_priority THEN 0 ELSE 1,
       IF a.pub_datetime = None THEN 1 ELSE 0,
       IF a.pub_datetime # None THEN 0 - a.pub_datetime[1] ELSE 0 >>

KeyLess(k1, k2) ==
    \/ k1[1] < k2[1]
    \/ k1[1] = k2[1] /\ k1[2] < k2[2]
    \/ k1[1] = k2[1] /\ k1[2] = k2[2] /\ k1[3] < k2[3]

\* list.sort(key=sort_key) is stable: x goes behind the members whose key
\* is not larger.
RECURSIVE InsertByKey(_, _, _)
InsertByKey(articles, sorted, x) ==
    IF sorted = <<>> THEN <<x>>
    ELSE IF KeyLess(sort_key(articles[x]), sort_key(articles[Head(sorted)]))
    THEN <<x>> \o sorted
    ELSE <<Head(sorted)>> \o InsertByKey(articles, Tail(sorted), x)

RECURSIVE SortGroup(_, _, _)
SortGroup(articles, group, sorted) ==
    IF group = <<>> THEN sorted
    ELSE SortGroup(articles, Tail(group), InsertByKey(articles, sorted, Head(group)))

\* StoryGrouper(similarity_threshold = threshold).group_stories(articles,
\* embedding_vectors = vectors)
group_stories(articles, vectors, threshold) ==
    LET use_embeddings == vectors # None /\ Len(vectors[1]) = Len(articles)
        groups == GroupLoop(articles, vectors, use_embeddings, threshold, 1, <<>>)
    IN  IF articles = <<>> THEN <<>>
        ELSE [g \in 1..Len(groups) |-> SortGroup(articles, groups[g], <<>>)]

(***************************************************************************)
(* SpecGroup: group_stories as a function of a bounded list of articles,   *)
(* an optional list of embedding vectors and a threshold.                  *)
(***************************************************************************)
MaxArticles == 3

\* The articles a list is drawn from: titles that share words ("V e",
\* "v c", "e"), a title of stop words only ("a"), an empty title; with and
\* without priority and publication time.
ArticlePool ==
    { [title |-> <<"V", " ", "e">>, is_priority |-> FALSE, pub_datetime |-> Some(2)],
      [title |-> <<"v", " ", "c">>, is_priority |-> TRUE,  pub_datetime |-> Some(1)],
      [title |-> <<"e">>,           is_priority |-> FALSE, pub_datetime |-> None],
      [title |-> <<"a">>,           is_priority |-> TRUE,  pub_datetime |-> Some(2)],
      [title |-> <<>>,              is_priority |-> FALSE, pub_datetime |-> Some(1)] }

\* The two headlines of one story that the documentation of the grouper
\* uses as its example, as articles without priority or publication time.
ExampleTitle1 ==
    <<"E", "n", "c", "i", "n", "i", "t", "a", "s", " ", "c", "o",
      "u", "n", "c", "i", "l", " ", "a", "p", "p", "r", "o", "v",
      "e", "s", " ", "n", "e", "w", " ", "b", "i", "k", "e", " ",
      "l", "a", "n", "e">>
ExampleTitle2 ==
    <<"E", "n", "c", "i", "n", "i", "t", "a", "s", " ", "C", "i",
      "t", "y", " ", "C", "o", "u", "n", "c", "i", "l", " ", "O",
      "K", "s", " ", "b", "i", "k", "e", " ", "l", "a", "n", "e",
      " ", "p", "r", "o", "j", "e", "c", "t">>
ExampleLists ==
    { <<[title |-> t[1], is_priority |-> FALSE, pub_datetime |-> None],
        [title |-> t[2], is_priority |-> FALSE, pub_datetime |-> None]>> :
        t \in {<<ExampleTitle1, ExampleTitle2>>, <<ExampleTitle2, ExampleTitle1>>} }

\* Three articles of which the third is as similar to the first as to the
\* second (1/2), the first two being less similar to each other (1/3).
TieList ==
    << [title |-> <<"V", " ", "e">>, is_priority |-> FALSE, pub_datetime |-> None],
       [title |-> <<"v", " ", "c">>, is_priority |-> FALSE, pub_datetime |-> None],
       [title |-> <<"v">>,           is_priority |-> FALSE, pub_datetime |-> None] >>

\* Embedding vectors: two vectors at cosine 3/5; and the vectors that have
\* no direction, the empty one and the zero vector.
VectorPool == {<<1, 0>>, <<3, 4>>}
OddVectors == {<<>>, <<0, 0>>}

\* similarity_threshold: 0.0, 0.5, the default 0.6, 1.01
Thresholds == {<<0, 1>>, <<1, 2>>, <<6, 10>>, <<101, 100>>}

\* The thresholds tried on the example: those, and 0.44.
ExampleThresholds == Thresholds \cup {<<44, 100>>}

\* The embedding_vectors arguments for a list of n articles: None, one
\* vector per article (at most one of them without direction), or a list
\* that is one vector short.
VectorLists(n) ==
    {None} \cup {Some(v) : v \in [1..n -> VectorPool]}
           \cup {Some([v EXCEPT ![k] = o]) :
                    v \in [1..n -> VectorPool], k \in 1..n, o \in OddVectors}
           \cup {Some([k \in 1..(n - 1) |-> <<1, 0>>]) : z \in {m \in {n} : m > 0}}

InitGroup ==
    /\ groupArticles \in SeqsUpTo(ArticlePool, MaxArticles) \cup ExampleLists \cup {TieList}
    /\ groupVectors \in VectorLists(Len(groupArticles))
    /\ groupThreshold \in IF groupArticles \in ExampleLists
                           THEN ExampleThresholds ELSE Thresholds
    /\ groupPc = "input"
    /\ groupResult = <<>>
    /\ UrlIdle
    /\ CacheIdle
    /\ MatchIdle
    /\ RunIdle
    /\ RelIdle
    /\ MainIdle
    /\ SendIdle

GroupStories ==
    /\ groupPc = "input"
    /\ groupResult' = group_stories(groupArticles, groupVectors, groupThreshold)
    /\ groupPc' = "grouped"
    /\ UNCHANGED <<groupArticles, groupVectors, groupThreshold, exceptGroup>>

NextGroup == GroupStories

SpecGroup == InitGroup /\ [][NextGroup]_vars

(***************************************************************************)
(* batch_ai_relevance (ai_helpers.py) on the reply of the oracle.  The     *)
(* reply is a text over ReplyChars; " " and the line feed are its          *)
(* whitespace.                                                             *)
(***************************************************************************)
Whitespace == {" ", "\n"}

\* str.strip(chars)
StripOf(s, chars) ==
    LET keep == {i \in 1..Len(s) : s[i] \notin chars}
    IN  IF keep = {} THEN <<>> ELSE SubSeq(s, SetMin(keep), SetMax(keep))

\* str.split(sep) for a one-character sep: the pieces between the
\* separators, empty ones included.
RECURSIVE SplitOn(_, _)
SplitOn(s, sep) ==
    IF FindFirst(s, {sep}, 1) = 0 THEN <<s>>
    ELSE <<SubSeq(s, 1, FindFirst(s, {sep}, 1) - 1)>>
         \o SplitOn(Drop(s, FindFirst(s, {sep}, 1) + 1), sep)

\* line.replace(",", " ").split(): the maximal runs of characters that are
\* neither whitespace nor a comma, in order.
RECURSIVE SplitParts(_, _)
SplitParts(s, from) ==
    IF {i \in from..Len(s) : s[i] \notin Whitespace \cup {","}} = {} THEN <<>>
    ELSE LET start == SetMin({i \in from..Len(s) : s[i] \notin Whitespace \cup {","}})
             stop  == FindFirst(s, Whitespace \cup {","}, start)
         IN  IF stop = 0 THEN <<SubSeq(s, start, Len(s))>>
             ELSE <<SubSeq(s, start, stop - 1)>> \o SplitParts(s, stop)

\* Lines 134-135: what follows the first colon of the line, if it has one.
AfterColon(line) ==
    IF FindFirst(line, {":"}, 1) = 0 THEN line
    ELSE StripOf(Drop(line, FindFirst(line, {":"}, 1) + 1), Whitespace)

\* Lines 139-147 without the limit: every part that names a community is
\* kept, however many there are.
RECURSIVE Found_All(_, _, _, _)
Found_All(parts, communities, k, found) ==
    IF k > Len(parts) THEN found
    ELSE LET part == StripOf(parts[k], {".", ","})
             hits == {i \in 1..Len(communities) : lower(communities[i]) = lower(part)}
         IN  Found_All(parts, communities, k + 1,
                       IF part # <<>> /\ hits # {}
                       THEN Append(found, communities[SetMin(hits)])
                       ELSE found)

\* Lines 139-147: found[:3], found being the communities named by the
\* parts of the line from part k on, in the order of the parts.
RECURSIVE Found(_, _, _, _)
Found(parts, communities, k, found) ==
    IF k > Len(parts) THEN Take(found, 3)
    ELSE LET part == StripOf(parts[k], {".", ","})
             hits == {i \in 1..Len(communities) : lower(communities[i]) = lower(part)}
         IN  Found(parts, communities, k + 1,
                   IF part # <<>> /\ hits # {}
                   THEN Append(found, communities[SetMin(hits)])
                   ELSE found)

\* Lines 131-147 for one line of the reply.
ParseLine(line, communities) ==
    IF lower(AfterColon(StripOf(line, Whitespace))) = <<"n", "o", "n", "e">>
    THEN <<>>
    ELSE Found(SplitParts(AfterColon(StripOf(line, Whitespace)), 1), communities, 1, <<>>)

\* Lines 130-147: result, one item per line of the stripped reply.
ParseReply(out, communities) ==
    [k \in 1..Len(SplitOn(StripOf(out, Whitespace), "\n")) |->
        ParseLine(SplitOn(StripOf(out, Whitespace), "\n")[k], communities)]

\* Lines 145-148: result padded with [] and cut to n items.
Padded(result, n) ==
    [i \in 1..n |-> IF i <= Len(result) THEN result[i] ELSE <<>>]

\* batch_ai_relevance for n candidates when llm.chat returns out (<<>> for
\* None, else <<text>>).
RelevanceOfReply(n, communities, available, out) ==
    IF ~available \/ n = 0 \/ communities = <<>> THEN [i \in 1..n |-> <<>>]
    ELSE IF out = None \/ out = Some(<<>>) THEN [i \in 1..n |-> <<>>]
    ELSE Padded(ParseReply(out[1], communities), n)

(***************************************************************************)
(* scrape_and_notify (scraper.py 360-600).  One step per feed visited,     *)
(* one for the AI-relevance block, one for urgency, summaries, embeddings, *)
(* sort and grouping, and one per notification sent.                       *)
(*                                                                         *)
(* The oracle (llm.chat, llm.get_embeddings) answers as a function of the  *)
(* text it is asked about; a call to it can also fail, and then yields     *)
(* None.                                                                   *)
(***************************************************************************)
\* What llm.chat does with a request: it returns the answer the oracle has
\* for it, it returns None (not configured, or the call fails: llm.py 75-93),
\* it returns the empty text, or it returns a text that holds no answer.
ChatReplies == {"answer", "none", "empty", "garbled"}

\* The oracle has been asked nothing in this call of scrape_and_notify.
Unasked ==
    [relevance |-> "unasked", verify |-> "unasked", urgency |-> "unasked",
     summary |-> "unasked", embeddings |-> "unasked"]

\* What llm.chat returns when its reply is not the oracle's answer.
NoAnswer(reply) ==
    IF reply = "none" THEN None
    ELSE IF reply = "empty" THEN Some(<<>>)
    ELSE Some(<<"?">>)

\* sep.join(pieces)
RECURSIVE JoinWith(_, _)
JoinWith(pieces, sep) ==
    IF pieces = <<>> THEN <<>>
    ELSE IF Len(pieces) = 1 THEN pieces[1]
    ELSE pieces[1] \o sep \o JoinWith(Tail(pieces), sep)

\* The communities the oracle names for an article in the first pass.
OracleRelevance(title) ==
    IF title = <<"c">> THEN <<Vista, Encinitas>>
    ELSE IF title = <<"c", " ", "c">> THEN <<Encinitas>>
    ELSE IF title = <<"V">> THEN <<Vista>>
    ELSE IF title = <<"e">> THEN <<Encinitas>>
    ELSE <<>>

\* Whether the oracle's line for (title, excerpt, community) starts with "y".
OracleVerifies(title, community) ==
    /\ title # <<"c", " ", "c">>
    /\ ~(title = <<"c">> /\ community = Encinitas)

\* The oracle's word for classify_urgency.
OracleUrgency(title) ==
    IF title = <<"V", " ", "e">> THEN "breaking"
    ELSE IF title = <<"e">> THEN "developing"
    ELSE "routine"

\* The three words of classify_urgency (line 50).
UrgencyWords ==
    [breaking   |-> <<"b", "r", "e", "a", "k", "i", "n", "g">>,
     developing |-> <<"d", "e", "v", "e", "l", "o", "p", "i", "n", "g">>,
     routine    |-> <<"r", "o", "u", "t", "i", "n", "e">>]

\* What llm.chat returns to classify_urgency: the oracle's word, with a
\* capital letter when it is "breaking".
UrgencyReply(title, reply) ==
    IF reply # "answer" THEN NoAnswer(reply)
    ELSE IF OracleUrgency(title) = "breaking"
    THEN Some(<<"B">> \o Tail(UrgencyWords.breaking))
    ELSE Some(UrgencyWords[OracleUrgency(title)])

\* The oracle's sentence for summarize_article.
OracleSummary(title) == Some(<<"c">>)

\* What llm.chat returns to summarize_article (any text is a summary).
SummaryReply(title, reply) ==
    IF reply = "answer" THEN OracleSummary(title) ELSE NoAnswer(reply)

\* The reply to the prompt of batch_ai_relevance: one line per candidate,
\* the names the oracle has for it or the word "none".
RelevanceReply(titles, reply) ==
    IF reply # "answer" THEN NoAnswer(reply)
    ELSE Some(JoinWith([i \in 1..Len(titles) |->
                           IF OracleRelevance(titles[i]) = <<>>
                           THEN <<"n", "o", "n", "e">>
                           ELSE JoinWith(OracleRelevance(titles[i]), <<",", " ">>)],
                       <<"\n">>))

\* The reply to the prompt of batch_verify_community_relevance: one line
\* per item, "Yes" or "no".
VerifyReply(items, reply) ==
    IF reply # "answer" THEN NoAnswer(reply)
    ELSE Some(JoinWith([i \in 1..Len(items) |->
                           IF OracleVerifies(items[i].title, items[i].community)
                           THEN <<"Y", "e", "s">> ELSE <<"n", "o">>],
                       <<"\n">>))

\* The embedding of a text: "V V" and "e e" are close to each other and
\* far (cosine 3/5) from every other text.
OracleEmbedding(text) ==
    IF text \in {<<"V", " ", "V">>, <<"e", " ", "e">>} THEN <<1, 0>> ELSE <<3, 4>>

\* batch_ai_relevance(candidates, communities): one list per candidate,
\* read off the reply of llm.chat.
batch_ai_relevance(titles, communities, available, reply) ==
    RelevanceOfReply(Len(titles), communities, available,
                     RelevanceReply(titles, reply))

\* Lines 169-178: the line, after its first colon if it has one, starts
\* with "y" in either case.
SaysYes(line) ==
    /\ AfterColon(StripOf(line, Whitespace)) # <<>>
    /\ lower(AfterColon(StripOf(line, Whitespace)))[1] = "y"

\* Lines 166-181 for the text out that llm.chat returned: one bool per
\* item, False for the items the reply has no line for.
VerifiedByReply(n, out) ==
    [i \in 1..n |->
        /\ i <= Len(SplitOn(StripOf(out, Whitespace), "\n"))
        /\ SaysYes(SplitOn(StripOf(out, Whitespace), "\n")[i])]

\* batch_verify_community_relevance(items): one bool per item.
batch_verify_community_relevance(items, available, reply) ==
    IF ~available \/ items = <<>> THEN [i \in 1..Len(items) |-> FALSE]
    ELSE IF VerifyReply(items, reply) \in {None, Some(<<>>)}
    THEN [i \in 1..Len(items) |-> FALSE]
    ELSE VerifiedByReply(Len(items), VerifyReply(items, reply)[1])

\* classify_urgency without the test of line 50: a reply that is none of
\* the three words counts as "breaking".
UrgencyOfReply_Unchecked(out) ==
    IF out \in {None, Some(<<>>)} THEN "routine"
    ELSE IF StripOf(lower(out[1]), Whitespace) = UrgencyWords.routine THEN "routine"
    ELSE IF StripOf(lower(out[1]), Whitespace) = UrgencyWords.developing THEN "developing"
    ELSE "breaking"

\* Lines 46-52 for what llm.chat returned (<<>> for None, else <<text>>).
UrgencyOfReply(out) ==
    IF out \in {None, Some(<<>>)} THEN "routine"
    ELSE IF StripOf(lower(out[1]), Whitespace) = UrgencyWords.breaking THEN "breaking"
    ELSE IF StripOf(lower(out[1]), Whitespace) = UrgencyWords.developing THEN "developing"
    ELSE "routine"

\* classify_urgency(title, excerpt)
classify_urgency(title, available, reply) ==
    IF available THEN UrgencyOfReply(UrgencyReply(title, reply)) ELSE "routine"

\* summarize_article(title, excerpt) (lines 17-25)
summarize_article(title, available, reply) ==
    IF available THEN SummaryReply(title, reply) ELSE None

\* Lines 450-460: the entry mentions one of ai_relevance_exclusion_phrases.
MentionsExcluded(e, phrases) ==
    \E i \in 1..Len(phrases) :
        /\ strip(phrases[i]) # <<>>
        /\ WordSearch(lower(phrases[i]), CombinedText(e))

\* Lines 438-464 for one entry, m being what check_entry_matches returned
\* for it; acc holds all_matches and ai_relevance_candidates.
Collect(m, e, feed_url, c, acc) ==
    IF m # None THEN [acc EXCEPT !.matches = Append(@, m[1])]
    ELSE IF /\ c.use_ai_relevance
            /\ c.llm_available
            /\ ~(/\ c.exclude_syndicated_from # <<>>
                 /\ is_syndicated_from(e, c.exclude_syndicated_from))
    THEN IF TooOld(e, c.max_age_hours) THEN acc
         ELSE IF MentionsExcluded(e, c.ai_relevance_exclusion_phrases) THEN acc
         ELSE [acc EXCEPT !.candidates =
                   Append(@, [entry |-> e, feed_url |-> feed_url])]
    ELSE acc

\* Lines 427-464 for one entry.
ScanEntry(e, feed_url, c, seenSet, acc) ==
    Collect(check_entry_matches(e, c, seenSet, feed_url), e, feed_url, c, acc)

\* Lines 426-464: the entries of one feed from position i on.
RECURSIVE ScanFeed(_, _, _, _, _, _)
ScanFeed(entries, feed_url, c, seenSet, i, acc) ==
    IF i > Len(entries) THEN acc
    ELSE ScanFeed(entries, feed_url, c, seenSet, i + 1,
                  ScanEntry(entries[i], feed_url, c, seenSet, acc))

\* Lines 479-489: to_verify_entries, the candidates the first pass gave a
\* community.
ToVerifyEntries(candidates, relevance_results) ==
    LET idx == SelectSeq([i \in 1..Len(candidates) |-> i],
                         LAMBDA i : relevance_results[i] # <<>>)
    IN  [k \in 1..Len(idx) |->
            [entry          |-> candidates[idx[k]].entry,
             feed_url       |-> candidates[idx[k]].feed_url,
             ai_communities |-> relevance_results[idx[k]]]]

\* Lines 488: to_verify, the (title, excerpt, community) items.
ToVerify(to_verify_entries) ==
    [k \in 1..Len(to_verify_entries) |->
        [title     |-> strip(to_verify_entries[k].entry.title),
         community |-> to_verify_entries[k].ai_communities[1]]]

\* Lines 492-500: the verified entries from position k on that are
\* appended to all_matches.
RECURSIVE AcceptLoop(_, _, _, _, _)
AcceptLoop(to_verify_entries, verified, seenSet, k, matches) ==
    IF k > Len(to_verify_entries) THEN matches
    ELSE LET m == _build_match_from_entry(to_verify_entries[k].entry,
                                          to_verify_entries[k].feed_url,
                                          to_verify_entries[k].ai_communities,
                                          "ai_relevance")
         IN  AcceptLoop(to_verify_entries, verified, seenSet, k + 1,
                        IF verified[k] /\ ~has_seen(seenSet, m.link)
                        THEN Append(matches, m) ELSE matches)

\* Lines 506-521: the match with its urgency and ai_summary, urgent and
\* summed being what llm.chat does with the requests of the two loops.
Annotated(m, c, urgent, summed) ==
    [communities    |-> m.communities,
     title          |-> m.title,
     pub_datetime   |-> m.pub_datetime,
     link           |-> m.link,
     excerpt        |-> m.excerpt,
     match_location |-> m.match_location,
     is_priority    |-> m.is_priority,
     urgency        |-> IF c.use_urgency /\ c.llm_available
                        THEN classify_urgency(m.title, c.llm_available, urgent)
                        ELSE "routine",
     ai_summary     |-> IF c.use_ai_summaries /\ c.llm_available
                        THEN summarize_article(m.title, c.llm_available, summed)
                        ELSE None]

\* Line 526: the text an embedding is requested for.
EmbeddingText(m) == m.title \o <<" ">> \o Take(m.excerpt, 500)

\* Lines 530-531: the sort key (urgency_order, -timestamp).
urgency_order(u) ==
    IF u = "breaking" THEN 0 ELSE IF u = "developing" THEN 1 ELSE 2

UrgencyKey(m) ==
    <<urgency_order(m.urgency),
      0 - (IF m.pub_datetime # None THEN m.pub_datetime[1] ELSE 0)>>

UrgencyKeyLess(k1, k2) ==
    \/ k1[1] < k2[1]
    \/ k1[1] = k2[1] /\ k1[2] < k2[2]

\* all_matches.sort(key=...) is stable: m goes behind the members whose
\* key is not larger.
RECURSIVE InsertByUrgency(_, _)
InsertByUrgency(sorted, m) ==
    IF sorted = <<>> THEN <<m>>
    ELSE IF UrgencyKeyLess(UrgencyKey(m), UrgencyKey(Head(sorted)))
    THEN <<m>> \o sorted
    ELSE <<Head(sorted)>> \o InsertByUrgency(Tail(sorted), m)

RECURSIVE SortByUrgency(_, _)
SortByUrgency(matches, sorted) ==
    IF matches = <<>> THEN sorted
    ELSE SortByUrgency(Tail(matches), InsertByUrgency(sorted, Head(matches)))

\* cache.mark_seen(article['link']) for the members of a notification
\* from member i on.
RECURSIVE MarkGroup(_, _, _, _)
MarkGroup(seenSet, matches, group, i) ==
    IF i > Len(group) THEN seenSet
    ELSE MarkGroup(mark_seen(seenSet, matches[group[i]].link), matches, group, i + 1)

(***************************************************************************)
(* Spec: one call of scrape_and_notify on two feeds.                       *)
(***************************************************************************)
MaxEntries == 2

\* The link whose key is in the store when the call starts.
SeenLink == <<"/", "s">>

\* cache.seen when scrape_and_notify is called.
StoreAtStart == {_normalize_url(SeenLink)}

\* The entries the feeds are made of: literal matches (two of them under
\* links with the same key), entries no community name occurs in, an
\* entry without link, one whose link is in the store, and entries with the
\* phrase "a" as their author, in their title and in their summary.
FeedEntries ==
    { [link |-> CacheUrls[1], title |-> <<"V">>, summary |-> <<>>,
       author |-> <<>>, pub |-> Some(2)],
      [link |-> CacheUrls[2], title |-> <<"V", " ", "e">>, summary |-> <<>>,
       author |-> <<>>, pub |-> None],
      [link |-> <<"s">>, title |-> <<"e">>, summary |-> <<>>,
       author |-> <<>>, pub |-> Some(1)],
      [link |-> <<"w">>, title |-> <<"c">>, summary |-> <<>>,
       author |-> <<>>, pub |-> Some(2)],
      [link |-> <<"w", "s">>, title |-> <<"c", " ", "c">>, summary |-> <<>>,
       author |-> <<>>, pub |-> Some(2)],
      [link |-> <<>>, title |-> <<"e">>, summary |-> <<>>,
       author |-> <<>>, pub |-> Some(2)],
      [link |-> SeenLink, title |-> <<"V">>, summary |-> <<>>,
       author |-> <<>>, pub |-> Some(2)],
      [link |-> <<"s", "/">>, title |-> <<"V">>, summary |-> <<>>,
       author |-> <<"a">>, pub |-> Some(2)],
      [link |-> <<"w", "/">>, title |-> <<"e", " ", "a">>, summary |-> <<>>,
       author |-> <<>>, pub |-> Some(2)],
      [link |-> <<"w", "s", "/">>, title |-> <<"e">>, summary |-> <<"a">>,
       author |-> <<>>, pub |-> None] }

\* A first feed with two literal matches and a second feed with an entry
\* that only the AI-relevance pass can assign to a community.
ThreeEntryFeeds ==
    << << [link |-> CacheUrls[1], title |-> <<"V">>, summary |-> <<>>,
           author |-> <<>>, pub |-> Some(2)],
          [link |-> CacheUrls[2], title |-> <<"V", " ", "e">>, summary |-> <<>>,
           author |-> <<>>, pub |-> None] >>,
       << [link |-> <<"w">>, title |-> <<"c">>, summary |-> <<>>,
           author |-> <<>>, pub |-> Some(2)] >> >>

\* Two feeds with at most MaxEntries entries between them, and the
\* three-entry pair.
FeedLists ==
    UNION {{<<SubSeq(s, 1, k), SubSeq(s, k + 1, Len(s))>> : k \in 0..Len(s)} :
              s \in SeqsUpTo(FeedEntries, MaxEntries)}
    \cup {ThreeEntryFeeds}

\* The defaults of scrape_and_notify (lines 365-380).
Defaults ==
    [communities                    |-> <<Vista, Encinitas>>,
     max_age_hours                  |-> None,
     exclude_syndicated_from        |-> <<>>,
     group_stories                  |-> TRUE,
     similarity_threshold           |-> <<6, 10>>,
     use_semantic_grouping          |-> FALSE,
     semantic_similarity_threshold  |-> <<78, 100>>,
     use_ai_summaries               |-> FALSE,
     use_ai_relevance               |-> FALSE,
     ai_relevance_exclusion_phrases |-> <<>>,
     use_urgency                    |-> FALSE,
     llm_available                  |-> FALSE]

\* All AI features on, with a recency filter and a syndication list.
AllFeatures ==
    [Defaults EXCEPT !.max_age_hours = Some(MaxAgeHours),
                     !.exclude_syndicated_from = << <<"a">> >>,
                     !.use_semantic_grouping = TRUE,
                     !.use_ai_summaries = TRUE,
                     !.use_ai_relevance = TRUE,
                     !.use_urgency = TRUE,
                     !.llm_available = TRUE]

\* The calls of the model: the defaults; all AI features with the oracle
\* configured and not configured; AI relevance alone, without grouping and
\* with an exclusion phrase.
RunConfigs ==
    { Defaults,
      AllFeatures,
      [AllFeatures EXCEPT !.llm_available = FALSE],
      [Defaults EXCEPT !.use_ai_relevance = TRUE,
                       !.llm_available = TRUE,
                       !.group_stories = FALSE,
                       !.ai_relevance_exclusion_phrases = << <<"c", " ", "c">> >>] }

Init ==
    /\ config \in RunConfigs
    /\ feeds \in FeedLists
    /\ pc = "feeds"
    /\ fetched = <<>>
    /\ all_matches = <<>>
    /\ ai_relevance_candidates = <<>>
    /\ relevanceAsked = <<>>
    /\ verifyAsked = <<>>
    /\ embedding_vectors = None
    /\ runGroups = <<>>
    /\ results = <<>>
    /\ posted_count = 0
    /\ oracle = Unasked
    /\ seen = StoreAtStart
    /\ fileExists = FALSE
    /\ fileLines = {}
    /\ cacheOp = "idle"
    /\ cacheArg = <<>>
    /\ cacheAns = FALSE
    /\ seenBefore = {}
    /\ UrlIdle
    /\ MatchIdle
    /\ GroupIdle
    /\ RelIdle
    /\ MainIdle
    /\ SendIdle

\* Lines 414-464 for feed f, whose fetch succeeds: all_matches and
\* ai_relevance_candidates after its entries.
Scanned(f) ==
    ScanFeed(feeds[f], FeedUrls[f], config, seen, 1,
             [matches |-> all_matches, candidates |-> ai_relevance_candidates])

FeedVisited ==
    /\ pc = "feeds"
    /\ all_matches' = Scanned(Len(fetched) + 1).matches
    /\ ai_relevance_candidates' = Scanned(Len(fetched) + 1).candidates
    /\ pc' = IF Len(fetched) + 1 = Len(feeds) THEN "relevance" ELSE "feeds"
    /\ fetched' = Append(fetched, TRUE)
    /\ UNCHANGED <<config, feeds, relevanceAsked, verifyAsked, embedding_vectors,
                   runGroups, results, posted_count, oracle, seen, exceptRun>>

\* Lines 415-418: fetch_feed returns None.
FeedFailed ==
    /\ pc = "feeds"
    /\ pc' = IF Len(fetched) + 1 = Len(feeds) THEN "relevance" ELSE "feeds"
    /\ fetched' = Append(fetched, FALSE)
    /\ UNCHANGED <<config, feeds, all_matches, ai_relevance_candidates,
                   relevanceAsked, verifyAsked, embedding_vectors, runGroups,
                   results, posted_count, oracle, seen, exceptRun>>

\* Lines 467-504: the AI-relevance block and the return when there is no
\* match.  reply and check: what llm.chat does with the request of the
\* first and of the second pass (a request that is not made has one value,
\* "answer", standing for all).
AiRelevance ==
    /\ pc = "relevance"
    /\ \E reply, check \in ChatReplies :
         LET asked == /\ config.use_ai_relevance
                      /\ ai_relevance_candidates # <<>>
                      /\ config.llm_available
             titles == [i \in 1..Len(ai_relevance_candidates) |->
                           strip(ai_relevance_candidates[i].entry.title)]
             relevance_results ==
                 batch_ai_relevance(titles, config.communities,
                                    config.llm_available, reply)
             to_verify_entries ==
                 ToVerifyEntries(ai_relevance_candidates, relevance_results)
             verified ==
                 batch_verify_community_relevance(ToVerify(to_verify_entries),
                                                  config.llm_available, check)
             checked == asked /\ to_verify_entries # <<>>
         IN  /\ asked \/ reply = "answer"
             /\ checked \/ check = "answer"
             /\ oracle' = [oracle EXCEPT
                              !.relevance = IF asked THEN reply ELSE "unasked",
                              !.verify = IF checked THEN check ELSE "unasked"]
             /\ relevanceAsked' =
                    IF asked
                    THEN [i \in 1..Len(ai_relevance_candidates) |->
                             ai_relevance_candidates[i].entry]
                    ELSE <<>>
             /\ verifyAsked' =
                    IF asked
                    THEN [k \in 1..Len(to_verify_entries) |->
                             [entry     |-> to_verify_entries[k].entry,
                              community |-> to_verify_entries[k].ai_communities[1],
                              passes    |-> verified[k]]]
                    ELSE <<>>
             /\ all_matches' =
                    IF asked
                    THEN AcceptLoop(to_verify_entries, verified, seen, 1, all_matches)
                    ELSE all_matches
             /\ pc' = IF all_matches' = <<>> THEN "returned" ELSE "prepare"
    /\ UNCHANGED <<config, feeds, fetched, ai_relevance_candidates,
                   embedding_vectors, runGroups, results, posted_count, seen,
                   exceptRun>>

\* Lines 506-539: urgency, summaries, embeddings, the sort and the
\* grouping.  urgent and summed: what llm.chat does with the requests of
\* classify_urgency and of summarize_article; embedded: llm.get_embeddings
\* returns the vectors (a request that is not made has one value standing
\* for all).
Prepare ==
    /\ pc = "prepare"
    /\ \E urgent \in ChatReplies, summed \in ChatReplies \ {"garbled"},
          embedded \in BOOLEAN :
         LET annotated == [i \in 1..Len(all_matches) |->
                              Annotated(all_matches[i], config, urgent, summed)]
             classified == config.use_urgency /\ config.llm_available
             summarized == config.use_ai_summaries /\ config.llm_available
             requested == /\ config.use_semantic_grouping
                          /\ config.llm_available
                          /\ Len(all_matches) > 1
             vectors   == IF requested /\ embedded
                          THEN Some([i \in 1..Len(annotated) |->
                                       OracleEmbedding(EmbeddingText(annotated[i]))])
                          ELSE None
             sorted    == SortByUrgency(annotated, <<>>)
             group_threshold ==
                 IF config.use_semantic_grouping /\ vectors # None
                 THEN config.semantic_similarity_threshold
                 ELSE config.similarity_threshold
         IN  /\ classified \/ urgent = "answer"
             /\ summarized \/ summed = "answer"
             /\ requested \/ embedded
             /\ oracle' = [oracle EXCEPT
                              !.urgency = IF classified THEN urgent ELSE "unasked",
                              !.summary = IF summarized THEN summed ELSE "unasked",
                              !.embeddings = IF ~requested THEN "unasked"
                                             ELSE IF embedded THEN "answer"
                                             ELSE "none"]
             /\ all_matches' = sorted
             /\ embedding_vectors' = vectors
             /\ runGroups' =
                    IF config.group_stories /\ Len(sorted) > 1
                    THEN group_stories(sorted, vectors, group_threshold)
                    ELSE [i \in 1..Len(sorted) |-> <<i>>]
    /\ pc' = "deliver"
    /\ UNCHANGED <<config, feeds, fetched, ai_relevance_candidates, relevanceAsked,
                   verifyAsked, results, posted_count, seen, exceptRun>>

\* Lines 541-598: the next notification is sent and the send_* call
\* returns True.
Delivered ==
    /\ pc = "deliver"
    /\ LET group == runGroups[Len(results) + 1]
       IN  /\ seen' = MarkGroup(seen, all_matches, group, 1)
           /\ posted_count' = posted_count + Len(group)
    /\ results' = Append(results, TRUE)
    /\ pc' = IF Len(results') = Len(runGroups) THEN "returned" ELSE "deliver"
    /\ UNCHANGED <<config, feeds, fetched, all_matches, ai_relevance_candidates,
                   relevanceAsked, verifyAsked, embedding_vectors, runGroups,
                   oracle, exceptRun>>

\* Lines 541-598: the send_* call returns False.
DeliveryFailed ==
    /\ pc = "deliver"
    /\ results' = Append(results, FALSE)
    /\ pc' = IF Len(results') = Len(runGroups) THEN "returned" ELSE "deliver"
    /\ UNCHANGED <<config, feeds, fetched, all_matches, ai_relevance_candidates,
                   relevanceAsked, verifyAsked, embedding_vectors, runGroups,
                   posted_count, oracle, seen, exceptRun>>

\* Lines 547-554, 562-576, 582-596: the call of the send_* function
\* raises, and the exception leaves scrape_and_notify (no try encloses the
\* calls).  With notifier.py as it stands every one of these calls raises
\* a TypeError: send_slack_notification (notifier.py 108-120) has eleven
\* parameters and none named urgency, while line 562 passes twelve
\* positional arguments and urgency=; send_grouped_notification (296-300)
\* has three and is passed four and group_summary=, suggested_angle=.
\* Delivered and DeliveryFailed are the outcomes of a delivery function
\* that accepts the call.
DeliveryRaised ==
    /\ pc = "deliver"
    /\ pc' = "raised"
    /\ UNCHANGED <<config, feeds, fetched, all_matches, ai_relevance_candidates,
                   relevanceAsked, verifyAsked, embedding_vectors, runGroups,
                   results, posted_count, oracle, seen, exceptRun>>

Next ==
    \/ FeedVisited
    \/ FeedFailed
    \/ AiRelevance
    \/ Prepare
    \/ Delivered
    \/ DeliveryFailed
    \/ DeliveryRaised

Spec == Init /\ [][Next]_vars

(***************************************************************************)
(* SpecRelevance: batch_ai_relevance as a function of the number of        *)
(* candidates, the communities and the reply.                              *)
(***************************************************************************)
MaxCandidates == 2
MaxReplyLen == 3

ReplyChars == {"V", "v", "e", "c", ",", ":", ".", " ", "\n"}

\* Replies longer than MaxReplyLen: four names on a line, the word "none"
\* in two spellings, numbered lines, a blank line between two answers, more
\* lines than any call has candidates.
ReplySamples ==
    { <<"V", ",", "e", ",", " ", "v", " ", "E">>,
      <<"n", "o", "n", "e", "\n", "V">>,
      <<"N", "o", "n", "e", ".", "\n", "e">>,
      <<"c", " ", "1", ":", " ", "V", "\n", "2", ":", "n", "o", "n", "e">>,
      <<"V", "\n", "\n", "e">>,
      <<"e", "\n", "V", "\n", "e", "\n", "V", "\n", "e">> }

Replies ==
    {None} \cup {Some(t) : t \in SeqsUpTo(ReplyChars, MaxReplyLen) \cup ReplySamples}

InitRelevance ==
    /\ relCall \in [n : 0..MaxCandidates,
                    communities : CommunityLists \cup {<<>>},
                    available : BOOLEAN,
                    out : Replies]
    /\ relPc = "call"
    /\ relResult = <<>>
    /\ UrlIdle
    /\ CacheIdle
    /\ MatchIdle
    /\ GroupIdle
    /\ RunIdle
    /\ MainIdle
    /\ SendIdle

BatchAiRelevance ==
    /\ relPc = "call"
    /\ relResult' = RelevanceOfReply(relCall.n, relCall.communities,
                                     relCall.available, relCall.out)
    /\ relPc' = "returned"
    /\ UNCHANGED <<relCall, exceptRel>>

NextRelevance == BatchAiRelevance

SpecRelevance == InitRelevance /\ [][NextRelevance]_vars

(***************************************************************************)
(* SpecMain: main of run_scraper.py from the call of scrape_and_notify     *)
(* (line 138) to the end of the process.  scrape_and_notify acts on the    *)
(* CacheManager through mark_seen; it ends by returning, by a              *)
(* KeyboardInterrupt or by another exception.                              *)
(***************************************************************************)
\* The most links one call of scrape_and_notify marks.
MaxMarked == 2

\* Line 134: the CacheManager is constructed, on a cache directory in any
\* of its start states.
InitMain ==
    /\ fileExists \in BOOLEAN
    /\ fileLines \in StoredFiles
    /\ ~fileExists => fileLines = {}
    /\ \E readFails \in BOOLEAN : seen = _load_cache(fileExists, fileLines, readFails)
    /\ cacheOp = "init"
    /\ cacheArg = <<>>
    /\ cacheAns = FALSE
    /\ seenBefore = {}
    /\ mainPc = "running"
    /\ saves = 0
    /\ marked = {}
    /\ exitCode = <<>>
    /\ UrlIdle
    /\ MatchIdle
    /\ GroupIdle
    /\ RunIdle
    /\ RelIdle
    /\ SendIdle

\* scrape_and_notify calls cache.mark_seen(link) after a delivery
\* (scraper.py 556, 577, 597).
MainMarkSeen ==
    /\ mainPc = "running"
    /\ Cardinality(marked) < MaxMarked
    /\ \E u \in CacheUrlSet :
          /\ seen' = mark_seen(seen, u)
          /\ marked' = marked \cup {u}
          /\ cacheArg' = u
    /\ cacheOp' = "mark_seen"
    /\ cacheAns' = FALSE
    /\ seenBefore' = seen
    /\ UNCHANGED <<fileExists, fileLines, mainPc, saves, exitCode, exceptMain>>

\* Lines 138-148: scrape_and_notify returns posted_count.
MainReturned ==
    /\ mainPc = "running"
    /\ mainPc' = "returned"
    /\ UNCHANGED <<cacheVars, saves, marked, exitCode, exceptMain>>

\* Line 154: a KeyboardInterrupt leaves scrape_and_notify.
MainInterrupted ==
    /\ mainPc = "running"
    /\ mainPc' = "interrupted"
    /\ UNCHANGED <<cacheVars, saves, marked, exitCode, exceptMain>>

\* Line 158: another exception leaves scrape_and_notify.
MainRaised ==
    /\ mainPc = "running"
    /\ mainPc' = "raised"
    /\ UNCHANGED <<cacheVars, saves, marked, exitCode, exceptMain>>

\* Lines 157, 161 and the end of main: the exit status of the process.
ExitCodeAfter(ending) == IF ending = "raised" THEN 1 ELSE 0

\* Lines 151, 156, 160: cache.save() writes the file, and the process ends.
MainSaveWritten ==
    /\ mainPc \in {"returned", "interrupted", "raised"}
    /\ \E kept \in Trimmed(seen) :
          /\ seen' = kept
          /\ fileLines' = kept
    /\ fileExists' = TRUE
    /\ cacheOp' = "save_ok"
    /\ cacheArg' = <<>>
    /\ cacheAns' = FALSE
    /\ seenBefore' = seen
    /\ saves' = saves + 1
    /\ exitCode' = Some(ExitCodeAfter(mainPc))
    /\ mainPc' = "exit"
    /\ UNCHANGED <<marked, exceptMain>>

\* Lines 151, 156, 160: cache.save() fails to open or to write the file,
\* logs the error, and the process ends.
MainSaveFailed ==
    /\ mainPc \in {"returned", "interrupted", "raised"}
    /\ \E kept \in Trimmed(seen) :
          /\ seen' = kept
          /\ \/ UNCHANGED <<fileExists, fileLines>>
             \/ /\ fileExists' = TRUE
                /\ fileLines' \in (SUBSET kept) \ {kept}
    /\ cacheOp' = "save_failed"
    /\ cacheArg' = <<>>
    /\ cacheAns' = FALSE
    /\ seenBefore' = seen
    /\ saves' = saves + 1
    /\ exitCode' = Some(ExitCodeAfter(mainPc))
    /\ mainPc' = "exit"
    /\ UNCHANGED <<marked, exceptMain>>

NextMain ==
    \/ MainMarkSeen
    \/ MainReturned
    \/ MainInterrupted
    \/ MainRaised
    \/ MainSaveWritten
    \/ MainSaveFailed

SpecMain == InitMain /\ [][NextMain]_vars

(***************************************************************************)
(* SpecSend: the retry loop of send_slack_notification (notifier.py        *)
(* 231-255) and of send_grouped_notification (421-445), which are the same *)
(* but for their log messages.  One step per pass of the loop.             *)
(***************************************************************************)
MAX_RETRIES == 3
RETRY_DELAY_BASE == 2

\* b ** n
RECURSIVE Pow(_, _)
Pow(b, n) == IF n = 0 THEN 1 ELSE b * Pow(b, n - 1)

\* The ways a pass can fail with a requests.exceptions.RequestException
\* that is not a Timeout: requests.post raises, or raise_for_status does.
RequestErrors == {"connection_error", "http_error"}

InitSend ==
    /\ sendCall \in {"send_slack_notification", "send_grouped_notification"}
    /\ sendPc = "posting"
    /\ attempt = 0
    /\ posts = <<>>
    /\ sleeps = <<>>
    /\ sendResult = None
    /\ UrlIdle
    /\ CacheIdle
    /\ MatchIdle
    /\ GroupIdle
    /\ RunIdle
    /\ RelIdle
    /\ MainIdle

\* Lines 232-240: the post succeeds and the function returns True.
PostSucceeded ==
    /\ sendPc = "posting"
    /\ attempt < MAX_RETRIES
    /\ posts' = Append(posts, "ok")
    /\ sendResult' = Some(TRUE)
    /\ sendPc' = "returned"
    /\ UNCHANGED <<sendCall, attempt, sleeps, exceptSend>>

\* The Timeout branch with a sleep after every pass, the last included.
PostTimedOut_SleepsAlways ==
    /\ sendPc = "posting"
    /\ attempt < MAX_RETRIES
    /\ posts' = Append(posts, "timeout")
    /\ sleeps' = Append(sleeps, Pow(RETRY_DELAY_BASE, attempt))
    /\ IF attempt < MAX_RETRIES - 1
       THEN /\ attempt' = attempt + 1
            /\ UNCHANGED <<sendPc, sendResult>>
       ELSE /\ sendResult' = Some(FALSE)
            /\ sendPc' = "returned"
            /\ UNCHANGED attempt
    /\ UNCHANGED <<sendCall, exceptSend>>

\* Lines 242-245, 255: the post times out; the function sleeps and goes on
\* with the next pass, or after the last pass leaves the loop and returns
\* False.
PostTimedOut ==
    /\ sendPc = "posting"
    /\ attempt < MAX_RETRIES
    /\ posts' = Append(posts, "timeout")
    /\ IF attempt < MAX_RETRIES - 1
       THEN /\ sleeps' = Append(sleeps, Pow(RETRY_DELAY_BASE, attempt))
            /\ attempt' = attempt + 1
            /\ UNCHANGED <<sendPc, sendResult>>
       ELSE /\ sendResult' = Some(FALSE)
            /\ sendPc' = "returned"
            /\ UNCHANGED <<attempt, sleeps>>
    /\ UNCHANGED <<sendCall, exceptSend>>

\* Lines 247-253: another request error; the function sleeps and goes on
\* with the next pass, or after the last pass returns False.
PostFailed ==
    /\ sendPc = "posting"
    /\ attempt < MAX_RETRIES
    /\ \E error \in RequestErrors : posts' = Append(posts, error)
    /\ IF attempt < MAX_RETRIES - 1
       THEN /\ sleeps' = Append(sleeps, Pow(RETRY_DELAY_BASE, attempt))
            /\ attempt' = attempt + 1
            /\ UNCHANGED <<sendPc, sendResult>>
       ELSE /\ sendResult' = Some(FALSE)
            /\ sendPc' = "returned"
            /\ UNCHANGED <<attempt, sleeps>>
    /\ UNCHANGED <<sendCall, exceptSend>>

NextSend == PostSucceeded \/ PostTimedOut \/ PostFailed

SpecSend == InitSend /\ [][NextSend]_vars

(***************************************************************************)
(* Properties of StoryGrouper.group_stories (SpecGroup).                   *)
(***************************************************************************)

\* The places <<group, member>> of the returned groups.
Slots ==
    {s \in (1..Len(groupResult)) \X (1..Len(groupArticles)) :
        s[2] <= Len(groupResult[s[1]])}

\* C1: the returned groups are a partition of the input: no group is
\* empty, every member is an input article, and every input article is at
\* exactly one place of exactly one group.
GroupsArePartition ==
    groupPc = "grouped" =>
        /\ \A g \in 1..Len(groupResult) :
              /\ groupResult[g] # <<>>
              /\ Len(groupResult[g]) <= Len(groupArticles)
              /\ Range(groupResult[g]) \subseteq 1..Len(groupArticles)
        /\ \A i \in 1..Len(groupArticles) :
              Cardinality({s \in Slots : groupResult[s[1]][s[2]] = i}) = 1

\* C1 witness: three articles with embedding vectors end in two groups.
GroupsArePartitionWitness ==
    /\ groupPc = "grouped"
    /\ Len(groupArticles) = 3
    /\ groupVectors # None
    /\ Len(groupResult) = 2

(***************************************************************************)
(* Properties of _normalize_url (SpecUrl).                                 *)
(***************************************************************************)

\* C6: _normalize_url is idempotent, and two URLs that differ only in
\* their query string or fragment get the same key.
NormalizeIdempotentQueryBlind ==
    /\ urlPc \in {"normalized", "variant"} => key2 = key1
    /\ urlPc = "variant" => variantKey = key1

(***************************************************************************)
(* Properties of CacheManager (SpecCache).                                 *)
(***************************************************************************)

\* C2: after a successful save the in-memory set and the written file each
\* hold at most MAX_CACHE_SIZE keys.
SaveKeepsCap ==
    cacheOp = "save_ok" =>
        /\ Cardinality(seen) <= MAX_CACHE_SIZE
        /\ Cardinality(fileLines) <= MAX_CACHE_SIZE

\* C2 witness: a successful save of a set that was above the cap.
SaveKeepsCapWitness ==
    /\ cacheOp = "save_ok"
    /\ Cardinality(seenBefore) > MAX_CACHE_SIZE
    /\ fileLines = seen

\* C3: a save that fails on I/O leaves the in-memory set exactly as it was
\* before the call, whatever its size.
FailedSaveKeepsSeen ==
    cacheOp = "save_failed" => seen = seenBefore

\* Two URLs that differ only in query string / fragment.
SameButQuery(u, v) == BeforeQuery(u) = BeforeQuery(v)

\* C7: once the store holds the key of u, has_seen answers TRUE for every
\* URL that differs from u only in query string / fragment, and marking
\* such a URL again leaves the set unchanged.
SeenCoversVariants ==
    /\ cacheOp = "has_seen" =>
          ((\E u \in CacheUrlSet :
                SameButQuery(u, cacheArg) /\ _normalize_url(u) \in seen)
           => cacheAns)
    /\ cacheOp = "mark_seen" =>
          ((\E u \in CacheUrlSet :
                SameButQuery(u, cacheArg) /\ _normalize_url(u) \in seenBefore)
           => seen = seenBefore)

(***************************************************************************)
(* Properties of check_entry_matches (SpecMatch).                          *)
(***************************************************************************)
\* The communities of the match dict (none when the result is None).
Matched == IF match = None THEN {} ELSE Range(match[1].communities)

\* C8: a community that has an exclusion phrase containing it as a whole
\* word is never among the matched communities of a text in which that
\* phrase occurs (so never when its only occurrences are inside the phrase).
ExclusionSuppresses ==
    matchPc = "checked" =>
        \A c \in DOMAIN community_exclusions :
            \A k \in 1..Len(community_exclusions[c]) :
                LET p == lower(community_exclusions[c][k])
                IN  (WordSearch(lower(c), p) /\ WordSearch(p, CombinedText(entry)))
                    => c \notin Matched

\* C8 witness: "c V" ("Chula Vista") occurs in the text of an entry that
\* matches another community, and "V" is not among the matched ones.
ExclusionSuppressesWitness ==
    /\ matchPc = "checked"
    /\ WordSearch(<<"c", " ", "v">>, CombinedText(entry))
    /\ Matched = {Encinitas}

\* The communities that occur as a whole word in the lower-cased text of
\* the entry with none of their exclusion phrases occurring in it.
Surviving ==
    {c \in Range(cfg.communities) :
        /\ WordSearch(lower(c), CombinedText(entry))
        /\ ~(/\ c \in DOMAIN community_exclusions
             /\ \E k \in 1..Len(community_exclusions[c]) :
                   WordSearch(lower(community_exclusions[c][k]), CombinedText(entry)))}

Syndicated ==
    /\ cfg.exclude_syndicated_from # <<>>
    /\ is_syndicated_from(entry, cfg.exclude_syndicated_from)

\* C9 as stated: for an unseen, non-syndicated entry the result holds
\* exactly the surviving communities, and is None when there is none.
MatchesExactlySurvivingIfUnseen ==
    (matchPc = "checked" /\ ~has_seen(seen, entry.link) /\ ~Syndicated) =>
        /\ Matched = Surviving
        /\ (Surviving = {}) <=> (match = None)

\* C9 amended: the same for an entry that also has a link and passes the
\* recency filter.
MatchesExactlySurviving ==
    (/\ matchPc = "checked"
     /\ entry.link # <<>>
     /\ ~has_seen(seen, entry.link)
     /\ ~TooOld(entry, cfg.max_age_hours)
     /\ ~Syndicated) =>
        /\ Matched = Surviving
        /\ (Surviving = {}) <=> (match = None)

\* C9 witness: an eligible entry that matches both communities.
MatchesExactlySurvivingWitness ==
    /\ matchPc = "checked"
    /\ entry.link # <<>>
    /\ ~has_seen(seen, entry.link)
    /\ ~TooOld(entry, cfg.max_age_hours)
    /\ ~Syndicated
    /\ Matched = {Vista, Encinitas}
    /\ match # None

\* C10: match_location is "title" exactly when one of the matched
\* communities occurs as a whole word in the title, in either order of the
\* community list.
LocationIsTitleIfAnyInTitle ==
    (matchPc = "checked" /\ match # None) =>
        ((match[1].match_location = "title")
            <=> (\E c \in Matched : WordSearch(lower(c), lower(strip(entry.title)))))

(***************************************************************************)
(* Properties of scrape_and_notify (Spec).                                 *)
(***************************************************************************)

\* The members of the notification that a delivery step sends.
Notification == runGroups[Len(results) + 1]

\* The keys of the links of a notification's members.
GroupKeys(group) == {_normalize_url(all_matches[group[i]].link) : i \in 1..Len(group)}

\* C4: a link enters the store if and only if the notification carrying it
\* returned success: a delivery that succeeds leaves every member of its
\* notification seen and adds nothing else, a delivery that fails adds
\* nothing, and no other step of the call changes the store.
MarkedIffDelivered ==
    [][IF pc = "deliver" /\ Len(results') > Len(results)
       THEN IF results'[Len(results')]
            THEN /\ \A i \in 1..Len(Notification) :
                        has_seen(seen', all_matches[Notification[i]].link)
                 /\ seen' \subseteq seen \cup GroupKeys(Notification)
            ELSE seen' = seen
       ELSE seen' = seen]_vars

\* C5: an entry whose link is in the store when the call starts is never
\* handed to batch_ai_relevance or batch_verify_community_relevance and
\* never becomes a match.
SeenEntriesNeverProcessed ==
    /\ \A i \in 1..Len(relevanceAsked) : ~has_seen(StoreAtStart, relevanceAsked[i].link)
    /\ \A i \in 1..Len(verifyAsked) : ~has_seen(StoreAtStart, verifyAsked[i].entry.link)
    /\ \A i \in 1..Len(all_matches) : ~has_seen(StoreAtStart, all_matches[i].link)

\* C11: every community of a match made by the AI-relevance fallback was
\* put to the verification pass for that entry and confirmed by it.
AiCommunitiesVerified ==
    \A i \in 1..Len(all_matches) :
        all_matches[i].match_location = "ai_relevance" =>
            \A c \in Range(all_matches[i].communities) :
                \E k \in 1..Len(verifyAsked) :
                    /\ verifyAsked[k].entry.link = all_matches[i].link
                    /\ strip(verifyAsked[k].entry.title) = all_matches[i].title
                    /\ verifyAsked[k].community = c
                    /\ verifyAsked[k].passes

(***************************************************************************)
(* Further properties of StoryGrouper (SpecGroup).                         *)
(***************************************************************************)

\* group_stories compares titles: no embedding list, or one whose length is
\* not that of the article list (lines 112-115).
Lexical ==
    groupVectors = None \/ Len(groupVectors[1]) # Len(groupArticles)

\* C12: with threshold 1.01 and title similarity, group_stories returns one
\* singleton group per article.
SingletonsAboveOne ==
    (groupPc = "grouped" /\ groupThreshold = <<101, 100>> /\ Lexical) =>
        /\ Len(groupResult) = Len(groupArticles)
        /\ \A g \in 1..Len(groupResult) : Len(groupResult[g]) = 1

\* C12 witness: three articles, two of them with the same title
\* (similarity 1), grouped at threshold 1.01.
SingletonsAboveOneWitness ==
    /\ groupPc = "grouped"
    /\ groupThreshold = <<101, 100>>
    /\ Lexical
    /\ Len(groupArticles) = 3
    /\ \E i, j \in 1..3 :
          /\ i < j
          /\ groupArticles[i].title # <<>>
          /\ calculate_similarity(groupArticles[i].title, groupArticles[j].title) = <<1, 1>>
    /\ Len(groupResult) = 3

\* The tokens of a title that calculate_similarity compares.
Tokens(title) == Words(lower(title)) \ stop_words

\* Every two articles of the input have titles that share a token.
AllPairsShare ==
    \A i, j \in 1..Len(groupArticles) :
        i # j => Tokens(groupArticles[i].title) \cap Tokens(groupArticles[j].title) # {}

OneGroupOfAll ==
    /\ Len(groupResult) = 1
    /\ Len(groupResult[1]) = Len(groupArticles)

\* C13 as stated: with threshold 0.0 and a non-empty input in which every
\* pair of titles shares a token, group_stories returns one group holding
\* all articles, whatever embedding vectors it is given.
OneGroupAtZero ==
    (/\ groupPc = "grouped"
     /\ groupThreshold = <<0, 1>>
     /\ groupArticles # <<>>
     /\ AllPairsShare) => OneGroupOfAll

\* C13 amended: the same when group_stories compares titles.
OneGroupAtZeroLexical ==
    (/\ groupPc = "grouped"
     /\ groupThreshold = <<0, 1>>
     /\ groupArticles # <<>>
     /\ AllPairsShare
     /\ Lexical) => OneGroupOfAll

\* C13 witness: three articles with two different titles that share a token
\* only after lower-casing, grouped by title at threshold 0.
OneGroupAtZeroLexicalWitness ==
    /\ groupPc = "grouped"
    /\ groupThreshold = <<0, 1>>
    /\ Len(groupArticles) = 3
    /\ AllPairsShare
    /\ Lexical
    /\ \E i, j \in 1..3 :
          Words(groupArticles[i].title) \cap Words(groupArticles[j].title) = {}
    /\ OneGroupOfAll

\* The example headlines, grouped by their titles.
ExampleGrouped ==
    /\ groupPc = "grouped"
    /\ groupArticles \in ExampleLists
    /\ Lexical

\* C14 as stated: the two example headlines are in separate groups at
\* threshold 0.6 and in the same group at threshold 0.5.
ExampleGroupsAtHalf ==
    ExampleGrouped =>
        /\ groupThreshold = <<6, 10>> => Len(groupResult) = 2
        /\ groupThreshold = <<1, 2>> => Len(groupResult) = 1

\* C14 amended: the Jaccard similarity of the two example headlines is 4/9;
\* they are in separate groups at thresholds 0.6 and 0.5, and in the same
\* group at threshold 0.44.
ExampleGroupsBelowHalf ==
    ExampleGrouped =>
        /\ TitleSimilarity(groupArticles[1], groupArticles[2]) = <<4, 9>>
        /\ groupThreshold \in {<<6, 10>>, <<1, 2>>} => Len(groupResult) = 2
        /\ groupThreshold = <<44, 100>> => Len(groupResult) = 1

\* C14 witness: the example headlines grouped at threshold 0.5 into two
\* groups.
ExampleGroupsBelowHalfWitness ==
    /\ ExampleGrouped
    /\ groupThreshold = <<1, 2>>
    /\ groupResult = << <<1>>, <<2>> >>

\* Equality of two similarities.
RatEq(a, b) == a[1] * b[2] = b[1] * a[2]

\* What the contract of calculate_similarity says about titles a and b.
SimilarityAsSpecified(a, b, sim) ==
    /\ RatEq(sim, calculate_similarity(b, a))
    /\ sim[2] > 0 /\ 0 <= sim[1] /\ sim[1] <= sim[2]
    /\ IF Tokens(a) = {}
       THEN IF Tokens(b) = {} THEN RatEq(sim, <<1, 1>>) ELSE RatEq(sim, <<0, 1>>)
       ELSE IF Tokens(b) = {} THEN RatEq(sim, <<0, 1>>)
       ELSE RatEq(sim, <<Cardinality(Tokens(a) \cap Tokens(b)),
                         Cardinality(Tokens(a) \cup Tokens(b))>>)

\* C15: calculate_similarity is symmetric and in [0,1]; it is 1 when both
\* titles have no token left after stop-word removal, 0 when exactly one has
\* none, and |intersection| / |union| of the token sets otherwise; for every
\* two titles of a list that group_stories grouped by title.
SimilarityContract ==
    (groupPc = "grouped" /\ Lexical) =>
    \A i, j \in 1..Len(groupArticles) :
        SimilarityAsSpecified(groupArticles[i].title, groupArticles[j].title,
            calculate_similarity(groupArticles[i].title, groupArticles[j].title))

\* C15 witness: a list grouped by title with a pair of titles whose
\* similarity is strictly between 0 and 1 and a pair of which exactly one
\* has no token.
SimilarityContractWitness ==
    /\ groupPc = "grouped"
    /\ Lexical
    /\ \E i, j \in 1..Len(groupArticles) :
          /\ i # j
          /\ 0 < calculate_similarity(groupArticles[i].title, groupArticles[j].title)[1]
          /\ RatLess(calculate_similarity(groupArticles[i].title, groupArticles[j].title), <<1, 1>>)
    /\ \E i, j \in 1..Len(groupArticles) :
          /\ groupArticles[i].title # <<>>
          /\ Tokens(groupArticles[i].title) = {}
          /\ Tokens(groupArticles[j].title) # {}

\* Article a may stand before article b in a group.
MayPrecede(a, b) ==
    /\ a.is_priority \/ ~b.is_priority
    /\ a.is_priority = b.is_priority =>
          /\ a.pub_datetime # None \/ b.pub_datetime = None
          /\ (a.pub_datetime # None /\ b.pub_datetime # None) =>
                a.pub_datetime[1] >= b.pub_datetime[1]

\* C16: in every group that group_stories returns, priority members precede
\* the others; among members of equal priority the dated ones precede the
\* undated ones and the dated ones are in non-increasing order of time.
GroupMembersOrdered ==
    groupPc = "grouped" =>
        \A g \in 1..Len(groupResult) :
            \A p, q \in 1..Len(groupResult[g]) :
                p < q => MayPrecede(groupArticles[groupResult[g][p]],
                                    groupArticles[groupResult[g][q]])

\* C16 witness: a group of three whose members come out in the reverse of
\* their input order: the priority member last in the input is first, and
\* of the two others the more recent one precedes the older one.
GroupMembersOrderedWitness ==
    /\ groupPc = "grouped"
    /\ groupResult = << <<3, 2, 1>> >>
    /\ groupArticles[3].is_priority
    /\ ~groupArticles[2].is_priority /\ ~groupArticles[1].is_priority
    /\ groupArticles[2].pub_datetime # None /\ groupArticles[1].pub_datetime # None
    /\ groupArticles[2].pub_datetime[1] > groupArticles[1].pub_datetime[1]

\* C17: the construction of a CacheManager never raises, whatever the state
\* of the store file, and leaves the seen set empty when the file is missing
\* or cannot be read.
ConstructNeverRaises ==
    /\ cacheOp # "init_raised"
    /\ (cacheOp = "init" /\ ~fileExists) => seen = {}

\* C18: an entry without a link never becomes a candidate article of the
\* call, by literal matching or by the AI-relevance fallback, and so is in
\* no notification.
LinklessNeverCandidate ==
    \A i \in 1..Len(all_matches) : all_matches[i].link # <<>>

\* Entry e carries phrase in its author field, in the first BYLINE_ZONE
\* characters of its plain-text summary or in its title.
CarriesPhrase(e, phrase) ==
    \/ Contains(e.author, phrase)
    \/ Contains(Take(strip_html(e.summary), BYLINE_ZONE), phrase)
    \/ Contains(e.title, phrase)

\* The entries of the fetched feeds that carry a phrase of the configured
\* syndication list.
SyndicatedEntries ==
    {e \in UNION {Range(feeds[f]) : f \in 1..Len(feeds)} :
        \E k \in 1..Len(config.exclude_syndicated_from) :
            CarriesPhrase(e, config.exclude_syndicated_from[k])}

\* C19: an entry that carries a phrase of the configured syndication list
\* never becomes a match, even when it names a community, and is never
\* enqueued for or handed to the AI-relevance fallback.
SyndicatedNeverCandidate ==
    \A e \in SyndicatedEntries :
        /\ \A i \in 1..Len(all_matches) :
              ~(all_matches[i].link = e.link /\ all_matches[i].title = strip(e.title))
        /\ \A i \in 1..Len(ai_relevance_candidates) : ai_relevance_candidates[i].entry # e
        /\ \A i \in 1..Len(relevanceAsked) : relevanceAsked[i] # e

\* C19 witness: a call with AI relevance whose feeds were all fetched and
\* held an entry with the phrase and a community name in its title, beside
\* an entry that was handed to the AI-relevance fallback.
SyndicatedNeverCandidateWitness ==
    /\ pc = "returned"
    /\ config.use_ai_relevance /\ config.llm_available
    /\ \A f \in 1..Len(fetched) : fetched[f]
    /\ \E e \in SyndicatedEntries :
          /\ Contains(e.title, config.exclude_syndicated_from[1])
          /\ WordSearch(lower(Encinitas), lower(e.title))
    /\ relevanceAsked # <<>>

\* C20: batch_ai_relevance returns one result per candidate whatever the
\* reply: each result holds at most three names, all of the configured
\* communities; the result of a candidate is what its line of the reply
\* gives; and a candidate the reply has no line for gets the empty result.
OneResultPerCandidate ==
    relPc = "returned" =>
        /\ Len(relResult) = relCall.n
        /\ \A i \in 1..Len(relResult) :
              /\ Len(relResult[i]) <= 3
              /\ Range(relResult[i]) \subseteq Range(relCall.communities)
        /\ (relCall.available /\ relCall.communities # <<>>
                /\ relCall.out # None /\ relCall.out # Some(<<>>)) =>
              \A i \in 1..relCall.n :
                  LET lines == SplitOn(StripOf(relCall.out[1], Whitespace), "\n")
                  IN  IF i <= Len(lines)
                      THEN relResult[i] = ParseLine(lines[i], relCall.communities)
                      ELSE relResult[i] = <<>>

\* C20 witness: a reply with fewer lines than candidates whose line names
\* four communities: the first result holds three names, the second is
\* empty.
OneResultPerCandidateWitness ==
    /\ relPc = "returned"
    /\ relCall.n = 2
    /\ relCall.out # None
    /\ Len(relResult[1]) = 3
    /\ relResult[2] = <<>>

\* The vectors group_stories hands to _similarity (lines 112-115, 132).
PassedVectors ==
    IF groupVectors # None /\ Len(groupVectors[1]) = Len(groupArticles)
                           /\ groupVectors[1] # <<>>
    THEN groupVectors ELSE None

\* The similarity of the articles at positions i and j of the input.
PairSimilarity(i, j) == _similarity(groupArticles, PassedVectors, i, j)

\* The largest of a non-empty set of similarities.
RatSetMax(S) == CHOOSE x \in S : \A y \in S : ~RatLess(x, y)

\* The members of returned group g that precede article i in the input:
\* the group as it was when article i was processed.
EarlierMembers(g, i) == {j \in Range(groupResult[g]) : j < i}

\* The groups that existed when article i was processed.
ExistingGroups(i) == {g \in 1..Len(groupResult) : EarlierMembers(g, i) # {}}

\* Single linkage: the largest similarity of article i to a member of g.
Linkage(g, i) == RatSetMax({PairSimilarity(i, j) : j \in EarlierMembers(g, i)})

\* The returned group that holds article i.
GroupOf(i) == CHOOSE g \in 1..Len(groupResult) : i \in Range(groupResult[g])

\* Article i, in returned group own, obeys the rule of lines 137-151, links
\* giving for each group that existed its single-linkage similarity to i:
\* i joined exactly when the largest of them is above 0 and at least the
\* threshold, and then own is the earliest group attaining it.
ObeysJoinRule(i, own, links) ==
    IF \E g \in DOMAIN links :
          /\ RatLess(<<0, 1>>, links[g])
          /\ ~RatLess(links[g], groupThreshold)
    THEN /\ own \in DOMAIN links
         /\ \A g \in DOMAIN links :
               IF g < own THEN RatLess(links[g], links[own])
               ELSE ~RatLess(links[own], links[g])
    ELSE own \notin DOMAIN links

\* C21: articles are processed in input order; an article joins an existing
\* group exactly when the largest single-linkage similarity over the groups
\* is above 0 and at least the threshold, and then joins the earliest group
\* that attains it; otherwise it starts a new group behind the existing
\* ones.
JoinsBestEarliestGroup ==
    groupPc = "grouped" =>
        /\ \A g, h \in 1..Len(groupResult) :
              g < h => SetMin(Range(groupResult[g])) < SetMin(Range(groupResult[h]))
        /\ \A i \in 1..Len(groupArticles) :
              \A own \in {GroupOf(i)} :
                  \A links \in {[g \in ExistingGroups(i) |-> Linkage(g, i)]} :
                      ObeysJoinRule(i, own, links)

\* C21 witness: the third article is equally similar to two groups and has
\* joined the first; in another shape, it joined the second group, to
\* which it is more similar.
JoinsBestEarliestGroupWitness ==
    /\ groupPc = "grouped"
    /\ Len(groupArticles) = 3
    /\ Len(groupResult) = 2
    /\ ExistingGroups(3) = {1, 2}
    /\ RatEq(Linkage(1, 3), Linkage(2, 3))
    /\ GroupOf(3) = 1

\* C22: when group_stories is given one embedding vector per article, the
\* similarity it computes for two articles is the cosine of their vectors
\* (0 when a vector is empty, has zero norm, or the dimensions differ),
\* never the similarity of their titles.
AlignedVectorsDecide ==
    (groupPc = "grouped" /\ PassedVectors # None) =>
        \A i, j \in 1..Len(groupArticles) :
            i # j => RatEq(PairSimilarity(i, j),
                           _cosine_similarity(groupVectors[1][i], groupVectors[1][j]))

\* C23: the embedding vector at a position of the list given to
\* group_stories is the vector computed from the text of the candidate at
\* that position of all_matches, as sorted for the grouping call.
EmbeddingsAligned ==
    (pc \in {"deliver", "returned"} /\ embedding_vectors # None) =>
        \A i \in 1..Len(all_matches) :
            embedding_vectors[1][i] = OracleEmbedding(EmbeddingText(all_matches[i]))

\* The orders in which a list of n articles can be given.
InputOrders(n) == {p \in [1..n -> 1..n] : Range(p) = 1..n}

\* The embedding_vectors argument that goes with the articles given in the
\* order p: one vector per article follows its article.
PermutedVectors(p) ==
    IF groupVectors # None /\ Len(groupVectors[1]) = Len(groupArticles)
    THEN Some([k \in 1..Len(groupArticles) |-> groupVectors[1][p[k]]])
    ELSE groupVectors

\* The groups that group_stories returns for the articles given in the order
\* p, each member named by its position in groupArticles.
GroupsInOrder(p) ==
    LET other == group_stories([k \in 1..Len(groupArticles) |-> groupArticles[p[k]]],
                               PermutedVectors(p), groupThreshold)
    IN  [h \in 1..Len(other) |-> [k \in 1..Len(other[h]) |-> p[other[h][k]]]]

\* C24: a group that group_stories forms of the same members, whatever the
\* order in which the articles were given, shows the same sequence of
\* articles.
DisplayOrderIgnoresInputOrder ==
    groupPc = "grouped" =>
        \A p \in InputOrders(Len(groupArticles)) :
            \A other \in {GroupsInOrder(p)} :
                \A g \in 1..Len(groupResult), h \in 1..Len(other) :
                    Range(groupResult[g]) = Range(other[h]) =>
                        [k \in 1..Len(groupResult[g]) |-> groupArticles[groupResult[g][k]]]
                            = [k \in 1..Len(other[h]) |-> groupArticles[other[h][k]]]

\* The replies of llm.chat that are not an answer.
NoAnswers == {"none", "empty", "garbled"}

\* The oracle gave no answer to the requests of one kind: it is not
\* configured, or its reply was None, empty or without an answer.
Down(kind) == ~config.llm_available \/ oracle[kind] \in NoAnswers

\* No request of the call got an answer from the oracle.
AllDown == \A kind \in DOMAIN oracle : oracle[kind] # "answer"

\* The AI-relevance block is behind; urgency, summaries, the sort and the
\* grouping are behind.
RelevanceDone == pc \in {"prepare", "deliver", "returned"}
Prepared == pc = "deliver" \/ (pc = "returned" /\ all_matches # <<>>)

\* The call with every AI feature switched off.
AiOff ==
    [config EXCEPT !.use_semantic_grouping = FALSE, !.use_ai_summaries = FALSE,
                   !.use_ai_relevance = FALSE, !.use_urgency = FALSE,
                   !.llm_available = FALSE]

\* all_matches of the call with every AI feature off, on the same feeds with
\* the same fetches failing, after the feed loop and after the sort.
AiOffMatches ==
    LET none == [matches |-> <<>>, candidates |-> <<>>]
        one  == IF fetched[1]
                THEN ScanFeed(feeds[1], FeedUrls[1], AiOff, StoreAtStart, 1, none)
                ELSE none
        two  == IF fetched[2]
                THEN ScanFeed(feeds[2], FeedUrls[2], AiOff, StoreAtStart, 1, one)
                ELSE one
    IN  SortByUrgency([i \in 1..Len(two.matches) |->
                          Annotated(two.matches[i], AiOff, "answer", "answer")], <<>>)

\* The notifications of that call, each the list of the links it carries.
AiOffNotifications(matches) ==
    LET groups == IF AiOff.group_stories /\ Len(matches) > 1
                  THEN group_stories(matches, None, AiOff.similarity_threshold)
                  ELSE [i \in 1..Len(matches) |-> <<i>>]
    IN  [g \in 1..Len(groups) |->
            [k \in 1..Len(groups[g]) |-> matches[groups[g][k]].link]]

\* The notifications of this call, each the list of the links it carries.
Notifications ==
    [g \in 1..Len(runGroups) |->
        [k \in 1..Len(runGroups[g]) |-> all_matches[runGroups[g][k]].link]]

OneSavePerEnding ==
    /\ mainPc = "exit" => saves = 1
    /\ mainPc # "exit" => saves = 0

\* C28: when the process has ended, cache.save() has been called exactly
\* once, and unless that save failed the file holds the key of every link
\* that was marked seen during the run.
SavedOnEveryEnding ==
    mainPc = "exit" =>
        /\ saves = 1
        /\ cacheOp = "save_ok" =>
              \A u \in marked :
                  _normalize_url(u) # <<>> => _normalize_url(u) \in fileLines

\* C26: a delivery call posts at most three times and never again after a
\* post that succeeded; it sleeps 1 second after the first failed post and
\* 2 seconds after the second, and not after its last post; it returns True
\* exactly when a post succeeded, and False only after three failed posts,
\* timeouts or other request errors alike.
RetryContract ==
    /\ Len(posts) <= 3
    /\ \A k \in 1..(Len(posts) - 1) : posts[k] # "ok"
    /\ sleeps \in {<<>>, <<1>>, <<1, 2>>}
    /\ sendPc = "posting" => Len(sleeps) = Len(posts) /\ sendResult = None
    /\ sendPc = "returned" =>
          /\ Len(sleeps) = Len(posts) - 1
          /\ sendResult = Some(\E k \in 1..Len(posts) : posts[k] = "ok")
          /\ sendResult = Some(FALSE) => Len(posts) = 3

\* C26 witness: a call has returned False after a timeout, a connection
\* error and a second timeout, having slept 1 and 2 seconds.
RetryContractWitness ==
    /\ sendPc = "returned"
    /\ posts = <<"timeout", "connection_error", "timeout">>
    /\ sleeps = <<1, 2>>
    /\ sendResult = Some(FALSE)

\* Every feed is visited whether or not the fetches before it failed, and
\* every notification is attempted whether or not those before it failed.
FailuresSkipped ==
    /\ pc \in {"relevance", "prepare", "deliver", "returned"} =>
          Len(fetched) = Len(feeds)
    /\ pc = "returned" => Len(results) = Len(runGroups)

\* C27: no failure of a unit aborts scrape_and_notify: every feed is
\* visited after a failed fetch, every notification is attempted after a
\* failed delivery, and no call of a delivery function raises out of
\* scrape_and_notify.
NoUnitAborts ==
    /\ FailuresSkipped
    /\ pc # "raised"

\* C29: the candidates that reach delivery in one call of scrape_and_notify
\* have pairwise different keys: no two of them carry the same link, or
\* links with the same normalized key.
NoKeyDeliveredTwice ==
    pc \in {"deliver", "returned", "raised"} =>
        \A i, j \in 1..Len(all_matches) :
            i # j => _normalize_url(all_matches[i].link)
                         # _normalize_url(all_matches[j].link)

\* mark_seen never adds the empty key to the set.
MarkSeenSkipsEmptyKey ==
    [][cacheOp' = "mark_seen" => (<<>> \in seen' => <<>> \in seen)]_vars

\* C30: the empty key is never in the seen set, whatever was loaded, marked
\* and saved, and has_seen of the empty URL and of a blank URL returns
\* False.
EmptyKeyNeverSeen ==
    /\ <<>> \notin seen
    /\ ~has_seen(seen, <<>>)
    /\ ~has_seen(seen, <<" ">>)
    /\ (cacheOp = "has_seen" /\ strip(cacheArg) = <<>>) => ~cacheAns

=============================================================================
